---- MODULE Spec2Model ----
(***************************************************************************)
(* Model of BD_AGRO_INTERSECT: the NDVI-intersect pipeline that classifies *)
(* field polygons, aggregates their areas and loads them in the warehouse. *)
(*                                                                         *)
(* Text values are written in ASCII: "1C" .. "5C+" stand for the labels    *)
(* 1oC .. 5oC+ (masculine ordinal), "PROPRIAS" for PRO'PRIAS, "INICIO" and *)
(* "MEDIA" for the accented harvest windows.  Raw ESTAGIO text is a        *)
(* sequence of characters, where "ORD" is the ordinal sign U+00BA, "DEG"   *)
(* the degree sign U+00B0, "ACIRC" the stray A-circumflex and " " a space. *)
(***************************************************************************)
EXTENDS Naturals, Integers, Sequences, FiniteSets, Bags, TLC

VARIABLES
    \* ---- Loader (InsertIntersectNdviIntoDatabase.main) ----
    table,              \* bag of warehouse rows of powerbi.intersect_ndvi (committed)
    files,              \* per unit: what __get_client_intersect_ndvi_summarized yields
    clients_to_remove,  \* set of client ids main() skips
    pc,                 \* position of main(): fetch / delete / insert / done / aborted
    idx,                \* index of the current unit in the loop order
    run,                \* number of the current execution of main()
    cur,                \* client_ndvi_data of the current unit (stamped rows)
    hadRows,            \* history: the current unit had rows when its load began
    delRes,             \* history: outcome of the current unit's delete_rows
    insRes,             \* history: outcome of the current unit's insert
    failed,             \* history: a failure happened in this run
    opsAfterFail,       \* history: deletes/inserts/units issued after a failure
    loads,              \* history: per unit, row counts after each load whose insert succeeded
    lastRead,           \* rows of the current unit a concurrent reader last counted
    \* ---- NdviDataValidation ----
    ndvi_data,          \* the classified rows handed to the validation
    v_input,            \* history: the rows as they were handed over
    vpc,                \* estagios / gridcode / contratos / validated / raised
    v_error,            \* the ValueError raised: [column, wrong_values]
    \* ---- IntersectNdvi.__create_estagio_column + ImproveEstagios ----
    estagio_raw,        \* ESTAGIO as read from the shapefile, per row
    ESTAGIO,            \* the ESTAGIO column
    ESTAGIO_D,          \* the ESTAGIO_D column
    epc,                \* format / adef_ref_plantio / bis / cortes / classified
    \* ---- IntersectNdviSummarized ----
    intersect_ndvi_data, \* the classified rows handed to the summary
    by_chave,           \* rows after __groupby_intersect_ndvi_data_by_chave
    data_final,         \* rows after __groupby_data_final
    apc,                \* chave / final / summarized
    \* ---- MakeValidGeometries ----
    g_input,            \* history: the collection handed to MakeValidGeometries
    geodataframe,       \* self.geodataframe: [crs, features]
    gpc,                \* new / filtered / collections / repaired / raised
    \* ---- ReprojectGeometries ----
    r_input,            \* history: the collection handed to ReprojectGeometries
    r_frame,            \* self.geodataframe: [crs, coords]
    r_to,               \* self.to
    rpc,                \* new / returned / raised
    \* ---- Dissolve ----
    d_input,            \* history: the collection handed to Dissolve
    d_frame,            \* the collection dissolve_geodataframe works on and returns
    dpc,                \* new / retry / dissolved / returned / raised
    dissolve_atributes, \* the group key of each row, NULL when no group field is given
    d_log,              \* history: what dissolve_geodataframe did, in order
    \* ---- JanelaDeColheita, then the rest of IntersectNdvi.ndvi_data ----
    j_input,            \* history: the rows handed to JanelaDeColheita
    ndvi_geodataframe,  \* self.ndvi_geodataframe: the rows being classified
    has_jan_col,        \* the input already has a JAN_COL column
    jpc,                \* position in classify_janela_colheita and ndvi_data
    \* ---- ImproveContratos ----
    c_input,            \* history: TP_PROP as handed to ImproveContratos
    TP_PROP,            \* the TP_PROP column
    cpc,                \* new / classified / formatted
    \* ---- IntersectNdvi.__classify_date_image ----
    i_input,            \* history: the rows handed to __classify_date_image
    i_data,             \* ndvi_data: the rows [DATA_IMG, AREA_NDVI]
    ipc,                \* the steps of ndvi_data done so far
    \* ---- IntersectNdvi.__format_columns ----
    k_input,            \* history: the column names of the shapefile as read
    k_columns,          \* self.intersect_ndvi.columns: name -> [of, as]
    kpc,                \* the steps of __format_columns and ndvi_data done so far
    k_error,            \* the ValueError raised, "" when none
    \* ---- the geometry operations of gisFunctions ----
    o_op,               \* the operation called
    o_input,            \* history: the collection as the caller passed it
    o_caller,           \* the collection object the caller still holds
    o_frame,            \* the collection the operation works on and returns
    opc,                \* new / returned / raised
    \* ---- upload_intersect_ndvi ----
    u_input,            \* history: the rows of the shapefile as read
    gdf,                \* the rows being converted
    conversion_failures, \* per column, the values that could not be converted
    conversion_success, \* per column, the values that were converted
    details,            \* the per-column lines of the final message
    upc                 \* numeric / dates / database / summary / cancelled / error

loaderVars == <<table, files, clients_to_remove, pc, idx, run, cur, hadRows,
                delRes, insRes, failed, opsAfterFail, loads, lastRead>>

valVars == <<ndvi_data, v_input, vpc, v_error>>
estVars == <<estagio_raw, ESTAGIO, ESTAGIO_D, epc>>
aggVars == <<intersect_ndvi_data, by_chave, data_final, apc>>
geoVars == <<g_input, geodataframe, gpc>>

reprojVars == <<r_input, r_frame, r_to, rpc>>
dissVars == <<d_input, d_frame, dpc, dissolve_atributes, d_log>>
janVars == <<j_input, ndvi_geodataframe, has_jan_col, jpc>>
conVars == <<c_input, TP_PROP, cpc>>
imgVars == <<i_input, i_data, ipc>>
colVars == <<k_input, k_columns, kpc, k_error>>
opVars == <<o_op, o_input, o_caller, o_frame, opc>>
upVars == <<u_input, gdf, conversion_failures, conversion_success, details, upc>>
moreVars == <<colVars, opVars, upVars>>

vars == <<loaderVars, valVars, estVars, aggVars, geoVars, reprojVars, dissVars,
          janVars, conVars, imgVars, moreVars>>

notLoader == <<valVars, estVars, aggVars, geoVars, reprojVars, dissVars, janVars,
               conVars, imgVars, moreVars>>
notValidation == <<loaderVars, estVars, aggVars, geoVars, reprojVars, dissVars,
                   janVars, conVars, imgVars, moreVars>>
notEstagios == <<loaderVars, valVars, aggVars, geoVars, reprojVars, dissVars,
                 janVars, conVars, imgVars, moreVars>>
notSummary == <<loaderVars, valVars, estVars, geoVars, reprojVars, dissVars,
                janVars, conVars, imgVars, moreVars>>
notGeometry == <<loaderVars, valVars, estVars, aggVars, reprojVars, dissVars,
                 janVars, conVars, imgVars, moreVars>>
notReproject == <<loaderVars, valVars, estVars, aggVars, geoVars, dissVars,
                  janVars, conVars, imgVars, moreVars>>
notDissolve == <<loaderVars, valVars, estVars, aggVars, geoVars, reprojVars,
                 janVars, conVars, imgVars, moreVars>>
notJanela == <<loaderVars, valVars, estVars, aggVars, geoVars, reprojVars,
               dissVars, conVars, imgVars, moreVars>>
notContratos == <<loaderVars, valVars, estVars, aggVars, geoVars, reprojVars,
                  dissVars, janVars, imgVars, moreVars>>
notDateImage == <<loaderVars, valVars, estVars, aggVars, geoVars, reprojVars,
                  dissVars, janVars, conVars, moreVars>>
notColumns == <<loaderVars, valVars, estVars, aggVars, geoVars, reprojVars,
                dissVars, janVars, conVars, imgVars, opVars, upVars>>
notOperations == <<loaderVars, valVars, estVars, aggVars, geoVars, reprojVars,
                   dissVars, janVars, conVars, imgVars, colVars, upVars>>
notUpload == <<loaderVars, valVars, estVars, aggVars, geoVars, reprojVars,
               dissVars, janVars, conVars, imgVars, colVars, opVars>>

\* The value of a missing attribute (None, NaN, pd.NA).
NULL == <<"NULL">>

(***************************************************************************)
(* Bounds                                                                  *)
(***************************************************************************)
MaxRuns == 2        \* executions of main() over the same files

(***************************************************************************)
(* Loader                                                                  *)
(***************************************************************************)
clients_id == <<1, 2>>
safra_list == <<2024>>
janela_list == <<"J1">>

\* Seasons and windows that may already be stored in the warehouse.
StoredSafras == {2023, 2024}
StoredJanelas == {"J1", "J2"}

\* Contents of an aggregated row other than its unit columns
\* (chave, estagio, jan_col, gridcode, tp_prop, data_img, area_ndvi).
Payloads == {"a", "b"}

Unit(c, s, w) == [client_id |-> c, safra |-> s, janela |-> w]

\* Loop order of main(): client, then safra, then janela.
Units ==
    [k \in 1..(Len(clients_id) * Len(safra_list) * Len(janela_list)) |->
        LET nw == Len(janela_list)
            ns == Len(safra_list)
            ci == ((k - 1) \div (ns * nw)) + 1
            si == (((k - 1) \div nw) % ns) + 1
            wi == ((k - 1) % nw) + 1
        IN  Unit(clients_id[ci], safra_list[si], janela_list[wi])]

RunUnits == {Units[k] : k \in 1..Len(Units)}

StoredUnits ==
    {Unit(c, s, w) : c \in {clients_id[i] : i \in 1..Len(clients_id)}, s \in StoredSafras, w \in StoredJanelas}

Row(u, p) ==
    [client_id |-> u.client_id, safra |-> u.safra, janela |-> u.janela, payload |-> p]

\* Mutant: a DELETE whose WHERE clause forgets the window.
DeleteMatchesAnyJanela(r, u) ==
    /\ r.client_id = u.client_id
    /\ r.safra = u.safra

\* WHERE client_id = {client_id} AND safra = {safra} AND janela = '{janela}'
DeleteMatches(r, u) ==
    /\ r.client_id = u.client_id
    /\ r.safra = u.safra
    /\ r.janela = u.janela

\* client_ndvi_data['client_id'] = client_id; safra and janela come from the unit.
StampRows(u, ps) == SetToBag({Row(u, p) : p \in ps})

\* Mutant: the DELETE is executed but never committed.
DeleteFromUncommitted(t, u) == t

\* cursor.execute(DELETE ...) followed by commit.
DeleteFrom(t, u) ==
    LET keep == {r \in DOMAIN t : ~DeleteMatches(r, u)}
    IN  [r \in keep |-> t[r]]

\* dataframe.to_sql(..., if_exists='append')
AppendTo(t, rows) == t (+) rows

UnitRows(t, u) ==
    LET mine == {r \in DOMAIN t : r.client_id = u.client_id /\ r.safra = u.safra
                                   /\ r.janela = u.janela}
    IN  [r \in mine |-> t[r]]

OtherRows(t, u) ==
    LET rest == {r \in DOMAIN t : ~(r.client_id = u.client_id /\ r.safra = u.safra
                                     /\ r.janela = u.janela)}
    IN  [r \in rest |-> t[r]]

UnitCount(t, u) == BagCardinality(UnitRows(t, u))

CurUnit == Units[idx]

\* What the loop does after a unit: the next unit, or close_connection.
Advance ==
    IF idx < Len(Units)
    THEN /\ idx' = idx + 1
         /\ pc' = "fetch"
    ELSE /\ idx' = idx
         /\ pc' = "done"

\* kind "none": no folder, no shapefile or an empty summary; "bad": the
\* classification raises ValueError; "rows": a non-empty aggregated row set.
FileKinds ==
    {[kind |-> "none", rows |-> {}], [kind |-> "bad", rows |-> {}]}
    \cup {[kind |-> "rows", rows |-> ps] : ps \in SUBSET Payloads \ {{}}}

LoaderInit ==
    /\ \E old \in [RunUnits -> SUBSET Payloads] :
          table = SetToBag(
              {Row(u, p) : u \in StoredUnits \ RunUnits, p \in {"a"}}
              \cup UNION {{Row(u, p) : p \in old[u]} : u \in RunUnits})
    /\ files \in [RunUnits -> FileKinds]
    /\ clients_to_remove \in {{}, {clients_id[Len(clients_id)]}}
    /\ pc = "fetch"
    /\ idx = 1
    /\ run = 1
    /\ cur = EmptyBag
    /\ hadRows = FALSE
    /\ delRes = "none"
    /\ insRes = "none"
    /\ failed = FALSE
    /\ opsAfterFail = 0
    /\ loads = [u \in RunUnits |-> <<>>]
    /\ lastRead = -1

\* Count a delete, insert or unit processed once a failure has happened.
NoteOp == opsAfterFail' = IF failed /\ opsAfterFail = 0 THEN 1 ELSE opsAfterFail

\* main(): the client is in clients_to_remove, the unit is passed over.
SkipRemoved ==
    /\ pc = "fetch"
    /\ CurUnit.client_id \in clients_to_remove
    /\ Advance
    /\ UNCHANGED <<table, files, clients_to_remove, run, cur, hadRows, delRes,
                   insRes, failed, opsAfterFail, loads, lastRead>>
    /\ UNCHANGED notLoader

\* Mutant: a main() that loads the unit without looking at `.empty`.
FetchEmptyDeletes ==
    /\ pc = "fetch"
    /\ CurUnit.client_id \notin clients_to_remove
    /\ files[CurUnit].kind = "none"
    /\ table' = DeleteFrom(table, CurUnit)
    /\ Advance
    /\ NoteOp
    /\ UNCHANGED <<files, clients_to_remove, run, cur, hadRows, delRes,
                   insRes, failed, loads, lastRead>>
    /\ UNCHANGED notLoader

\* No client folder, no shapefile or an empty summary: `client_ndvi_data.empty`.
FetchEmpty ==
    /\ pc = "fetch"
    /\ CurUnit.client_id \notin clients_to_remove
    /\ files[CurUnit].kind = "none"
    /\ Advance
    /\ NoteOp
    /\ UNCHANGED <<table, files, clients_to_remove, run, cur, hadRows, delRes,
                   insRes, failed, loads, lastRead>>
    /\ UNCHANGED notLoader

\* Mutant: the old rows are deleted before the shapefile is classified.
FetchRaisesAfterDelete ==
    /\ pc = "fetch"
    /\ CurUnit.client_id \notin clients_to_remove
    /\ files[CurUnit].kind = "bad"
    /\ table' = DeleteFrom(table, CurUnit)
    /\ pc' = "aborted"
    /\ failed' = TRUE
    /\ NoteOp
    /\ UNCHANGED <<files, clients_to_remove, idx, run, cur, hadRows,
                   delRes, insRes, loads, lastRead>>
    /\ UNCHANGED notLoader

\* IntersectNdvi.ndvi_data() raises ValueError: nothing catches it, main() ends.
FetchRaises ==
    /\ pc = "fetch"
    /\ CurUnit.client_id \notin clients_to_remove
    /\ files[CurUnit].kind = "bad"
    /\ pc' = "aborted"
    /\ failed' = TRUE
    /\ NoteOp
    /\ UNCHANGED <<table, files, clients_to_remove, idx, run, cur, hadRows,
                   delRes, insRes, loads, lastRead>>
    /\ UNCHANGED notLoader

\* A non-empty summary: __insert_ndvi_data_into_database stamps the rows.
FetchRows ==
    /\ pc = "fetch"
    /\ CurUnit.client_id \notin clients_to_remove
    /\ files[CurUnit].kind = "rows"
    /\ cur' = StampRows(CurUnit, files[CurUnit].rows)
    /\ hadRows' = (UnitCount(table, CurUnit) > 0)
    /\ delRes' = "none"
    /\ insRes' = "none"
    /\ pc' = "delete"
    /\ lastRead' = -1
    /\ NoteOp
    /\ UNCHANGED <<table, files, clients_to_remove, idx, run, failed, loads>>
    /\ UNCHANGED notLoader

\* DataBase.delete_rows: execute + commit, or psycopg2.Error printed and rolled back.
DeleteOldRows ==
    /\ pc = "delete"
    /\ \E outcome \in {"ok", "err"} :
          /\ delRes' = outcome
          /\ table' = IF outcome = "ok" THEN DeleteFrom(table, CurUnit) ELSE table
          /\ failed' = (failed \/ outcome = "err")
    /\ pc' = "insert"
    /\ NoteOp
    /\ UNCHANGED <<files, clients_to_remove, idx, run, cur, hadRows, insRes,
                   loads, lastRead>>
    /\ UNCHANGED notLoader

\* DataBase.insert_dataframe_into_postgres: to_sql append, or SQLAlchemyError printed.
InsertDataframe ==
    /\ pc = "insert"
    /\ \E outcome \in {"ok", "err"} :
          /\ insRes' = outcome
          /\ table' = IF outcome = "ok" THEN AppendTo(table, cur) ELSE table
          /\ failed' = (failed \/ outcome = "err")
          /\ loads' = IF outcome = "ok"
                      THEN [loads EXCEPT ![CurUnit] = Append(@, UnitCount(table', CurUnit))]
                      ELSE loads
    /\ pc' = "loaded"
    /\ NoteOp
    /\ UNCHANGED <<files, clients_to_remove, idx, run, cur, hadRows, delRes, lastRead>>
    /\ UNCHANGED notLoader

\* Back in main(): the loop goes on with the next unit.
NextUnit ==
    /\ pc = "loaded"
    /\ Advance
    /\ UNCHANGED <<table, files, clients_to_remove, run, cur, hadRows, delRes,
                   insRes, failed, opsAfterFail, loads, lastRead>>
    /\ UNCHANGED notLoader

\* The operator runs main() again over the same files.
RunAgain ==
    /\ pc \in {"done", "aborted"}
    /\ run < MaxRuns
    /\ run' = run + 1
    /\ pc' = "fetch"
    /\ idx' = 1
    /\ failed' = FALSE
    /\ opsAfterFail' = 0
    /\ delRes' = "none"
    /\ insRes' = "none"
    /\ UNCHANGED <<table, files, clients_to_remove, cur, hadRows, loads, lastRead>>
    /\ UNCHANGED notLoader

\* Another session counts a unit's rows (it sees committed data only).
ReaderCounts ==
    /\ pc \in {"delete", "insert", "loaded"}
    /\ lastRead' = UnitCount(table, CurUnit)
    /\ UNCHANGED <<table, files, clients_to_remove, pc, idx, run, cur, hadRows,
                   delRes, insRes, failed, opsAfterFail, loads>>
    /\ UNCHANGED notLoader

Next ==
    \/ SkipRemoved
    \/ FetchEmpty
    \/ FetchRaises
    \/ FetchRows
    \/ DeleteOldRows
    \/ InsertDataframe
    \/ NextUnit
    \/ RunAgain
    \/ ReaderCounts

\* The components a specification does not exercise stay as constructed.
ValidationIdle ==
    /\ ndvi_data = <<>>
    /\ v_input = <<>>
    /\ vpc = "off"
    /\ v_error = [column |-> "", wrong_values |-> <<>>]

EstagiosIdle ==
    /\ estagio_raw = <<>>
    /\ ESTAGIO = <<>>
    /\ ESTAGIO_D = <<>>
    /\ epc = "off"

SummaryIdle ==
    /\ intersect_ndvi_data = <<>>
    /\ by_chave = {}
    /\ data_final = {}
    /\ apc = "off"

GeometryIdle ==
    /\ g_input = <<>>
    /\ geodataframe = [crs |-> "4326", features |-> <<>>]
    /\ gpc = "off"

ReprojectIdle ==
    /\ r_input = <<>>
    /\ r_frame = [crs |-> "4326", coords |-> <<>>]
    /\ r_to = "4326"
    /\ rpc = "off"

DissolveIdle ==
    /\ d_input = <<>>
    /\ d_frame = <<>>
    /\ dpc = "off"
    /\ dissolve_atributes = NULL
    /\ d_log = <<>>

JanelaIdle ==
    /\ j_input = <<>>
    /\ ndvi_geodataframe = <<>>
    /\ has_jan_col = FALSE
    /\ jpc = "off"

ContratosIdle ==
    /\ c_input = <<>>
    /\ TP_PROP = <<>>
    /\ cpc = "off"

DateImageIdle ==
    /\ i_input = <<>>
    /\ i_data = <<>>
    /\ ipc = <<>>

ColumnsIdle ==
    /\ k_input = {}
    /\ k_columns = <<>>
    /\ kpc = <<>>
    /\ k_error = ""

OperationsIdle ==
    /\ o_op = ""
    /\ o_input = <<>>
    /\ o_caller = <<>>
    /\ o_frame = <<>>
    /\ opc = "off"

UploadIdle ==
    /\ u_input = <<>>
    /\ gdf = <<>>
    /\ conversion_failures = <<>>
    /\ conversion_success = <<>>
    /\ details = <<>>
    /\ upc = "off"

MoreIdle == ColumnsIdle /\ OperationsIdle /\ UploadIdle

HelpersIdle ==
    /\ ReprojectIdle /\ DissolveIdle /\ JanelaIdle /\ ContratosIdle /\ DateImageIdle
    /\ MoreIdle

Init ==
    LoaderInit /\ ValidationIdle /\ EstagiosIdle /\ SummaryIdle /\ GeometryIdle
    /\ HelpersIdle

Spec == Init /\ [][Next]_vars

(***************************************************************************)
(* Loader claims                                                           *)
(***************************************************************************)

\* C1: loading the same rows R for a unit twice leaves the same number of rows
\* for the unit as loading them once, and no row of R is stored twice, also
\* when a delete step reported a database error.
C1_LoadIsIdempotent ==
    /\ \A u \in RunUnits :
          \A i \in 1..Len(loads[u]) : loads[u][i] = loads[u][1]
    /\ (pc = "loaded" /\ insRes = "ok") =>
          \A r \in DOMAIN cur : CopiesIn(r, table) = CopiesIn(r, cur)

\* C2: a load deletes exactly the rows of its own (client, season, window) and
\* inserts the new ones: the rows of every other unit stay as they were, the
\* delete removes every row of the unit, and after a delete and an insert that
\* both succeeded the unit holds exactly the new rows.
C2_LoadTouchesOnlyItsUnit ==
    [][ /\ \A u \in StoredUnits :
              (u # CurUnit \/ pc \notin {"delete", "insert"})
                  => UnitRows(table', u) = UnitRows(table, u)
        /\ (pc = "delete" /\ delRes' = "ok")
              => (UnitRows(table', CurUnit) = EmptyBag
                  /\ OtherRows(table', CurUnit) = OtherRows(table, CurUnit))
        /\ (pc = "insert" /\ delRes = "ok" /\ insRes' = "ok")
              => UnitRows(table', CurUnit) = cur
      ]_vars

C2_Witness ==
    /\ pc = "loaded"
    /\ delRes = "ok"
    /\ insRes = "ok"
    /\ hadRows
    /\ UnitRows(table, CurUnit) = cur
    /\ OtherRows(table, CurUnit) # EmptyBag

\* C3: the delete is committed before the insert begins: between the two the
\* unit has no rows (a concurrent reader can count zero rows of a unit that
\* had rows), and when the insert then fails the unit stays without rows.
C3_DeleteCommittedBeforeInsert ==
    /\ (pc = "insert" /\ delRes = "ok") => UnitCount(table, CurUnit) = 0
    /\ (pc = "loaded" /\ delRes = "ok" /\ insRes = "err")
          => UnitCount(table, CurUnit) = 0

C3_Witness ==
    /\ pc = "insert"
    /\ delRes = "ok"
    /\ hadRows
    /\ lastRead = 0
    /\ UnitCount(table, CurUnit) = 0

\* C4: once a classification error, a delete error or an insert error has
\* happened in a run, no later unit is processed and no further delete or
\* insert is issued.
C4_FailureAbortsRun == failed => opsAfterFail = 0

\* C28: when the classification of a unit's shapefile raises (a column that
\* cannot be resolved, a value outside the enumerations), the error leaves
\* main() before the delete of the unit is issued: the rows stored for the
\* unit and for every other unit are as they were, and stay so while the run
\* is aborted.
C28_ClassificationFailureKeepsRows ==
    [][ /\ (pc = "fetch" /\ CurUnit.client_id \notin clients_to_remove
                          /\ files[CurUnit].kind = "bad")
              => /\ table' = table
                 /\ pc' = "aborted"
                 /\ delRes' = delRes /\ insRes' = insRes
        /\ (pc = "aborted" /\ pc' = "aborted") => table' = table
      ]_vars

C28_Witness ==
    /\ pc = "aborted"
    /\ files[CurUnit].kind = "bad"
    /\ UnitCount(table, CurUnit) > 0
    /\ OtherRows(table, CurUnit) # EmptyBag

MaxValRows == 2     \* rows of a validated collection

\* Mutant: an enumeration that lost PLANTIO.
estagios_values_without_plantio ==
    {"1C", "2C", "3C", "4C", "5C+", "BIS", "ADEF", "REF"}

estagios_values == {"1C", "2C", "3C", "4C", "5C+", "BIS", "ADEF", "REF", "PLANTIO"}
contratos_values == {"PROPRIAS", "FORNECEDORES", "ADEF"}
gridcode_values == 1..6

\* Rows that reach the validation: ESTAGIO_D starts as '' and TP_PROP has its
\* empties filled, so neither is null; GRIDCODE is an int64.
ValidationRows ==
    [ESTAGIO_D : {"1C", "PLANTIO", "", "6C"},
     TP_PROP : {"PROPRIAS", "ARRENDADO"},
     GRIDCODE : {1, 7}]

Column(rows, column) == [i \in 1..Len(rows) |-> rows[i][column]]

\* Series.drop_duplicates().to_list(): the first occurrence of each value, in order.
RECURSIVE DropDuplicates(_)
DropDuplicates(s) ==
    IF s = <<>> THEN <<>>
    ELSE LET rest == DropDuplicates(SubSeq(s, 1, Len(s) - 1))
             last == s[Len(s)]
         IN  IF \E i \in 1..Len(rest) : rest[i] = last THEN rest ELSE Append(rest, last)

\* self.ndvi_data.loc[~self.ndvi_data[column].isin(values)]
RowsNotIn(rows, column, values) ==
    SelectSeq(rows, LAMBDA r : r[column] \notin values)

\* One of the three checks: raise with the distinct wrong values, or go on.
ColumnValidation(column, values, next) ==
    LET wrong_rows == RowsNotIn(ndvi_data, column, values)
        wrong_values == DropDuplicates(Column(wrong_rows, column))
    IN  IF wrong_rows # <<>>
        THEN /\ vpc' = "raised"
             /\ v_error' = [column |-> column, wrong_values |-> wrong_values]
        ELSE /\ vpc' = next
             /\ UNCHANGED v_error

estagios_validation ==
    /\ vpc = "estagios"
    /\ ColumnValidation("ESTAGIO_D", estagios_values, "gridcode")
    /\ UNCHANGED <<ndvi_data, v_input>>
    /\ UNCHANGED notValidation

gridcode_validation ==
    /\ vpc = "gridcode"
    /\ ColumnValidation("GRIDCODE", gridcode_values, "contratos")
    /\ UNCHANGED <<ndvi_data, v_input>>
    /\ UNCHANGED notValidation

contratos_validation ==
    /\ vpc = "contratos"
    /\ ColumnValidation("TP_PROP", contratos_values, "validated")
    /\ UNCHANGED <<ndvi_data, v_input>>
    /\ UNCHANGED notValidation

ValidationInit ==
    /\ ndvi_data \in UNION {[1..n -> ValidationRows] : n \in 1..MaxValRows}
    /\ v_input = ndvi_data
    /\ vpc = "estagios"
    /\ v_error = [column |-> "", wrong_values |-> <<>>]

LoaderIdle ==
    /\ table = EmptyBag
    /\ files = <<>>
    /\ clients_to_remove = {}
    /\ pc = "off"
    /\ idx = 1
    /\ run = 1
    /\ cur = EmptyBag
    /\ hadRows = FALSE
    /\ delRes = "none"
    /\ insRes = "none"
    /\ failed = FALSE
    /\ opsAfterFail = 0
    /\ loads = <<>>
    /\ lastRead = -1

InitValidation ==
    ValidationInit /\ LoaderIdle /\ EstagiosIdle /\ SummaryIdle /\ GeometryIdle /\ HelpersIdle

NextValidation ==
    \/ estagios_validation
    \/ gridcode_validation
    \/ contratos_validation

SpecValidation == InitValidation /\ [][NextValidation]_vars

\* C5: the validation raises exactly when some row has ESTAGIO_D, TP_PROP or
\* GRIDCODE outside its enumeration; the error names a violated column and
\* carries each offending value of that column once; no row is dropped or changed.
C5_ValidationIsClosedSetCheck ==
    LET BadEstagio(r) ==
            r.ESTAGIO_D \notin
                {"1C", "2C", "3C", "4C", "5C+", "BIS", "ADEF", "REF", "PLANTIO"}
        BadContrato(r) == r.TP_PROP \notin {"PROPRIAS", "FORNECEDORES", "ADEF"}
        BadGridcode(r) == r.GRIDCODE \notin {1, 2, 3, 4, 5, 6}
        Bad(r, column) ==
            CASE column = "ESTAGIO_D" -> BadEstagio(r)
              [] column = "TP_PROP" -> BadContrato(r)
              [] column = "GRIDCODE" -> BadGridcode(r)
              [] OTHER -> FALSE
        Rows == 1..Len(v_input)
        SomeBad == \E i \in Rows :
                      BadEstagio(v_input[i]) \/ BadContrato(v_input[i])
                          \/ BadGridcode(v_input[i])
        w == v_error.wrong_values
    IN  /\ ndvi_data = v_input
        /\ vpc = "validated" => ~SomeBad
        /\ vpc = "raised" =>
              /\ SomeBad
              /\ v_error.column \in {"ESTAGIO_D", "TP_PROP", "GRIDCODE"}
              /\ {w[k] : k \in 1..Len(w)} =
                    {v_input[i][v_error.column] :
                        i \in {j \in Rows : Bad(v_input[j], v_error.column)}}
              /\ w # <<>>
              /\ \A k, l \in 1..Len(w) : k # l => w[k] # w[l]

C5_Witness ==
    /\ vpc = "raised"
    /\ Len(ndvi_data) = 2
    /\ ndvi_data[1].ESTAGIO_D = ""
    /\ ndvi_data[2].ESTAGIO_D = ""
    /\ ndvi_data[2].GRIDCODE = 7
    /\ v_error = [column |-> "ESTAGIO_D", wrong_values |-> <<"">>]

(***************************************************************************)
(* ESTAGIO formatting and ImproveEstagios                                  *)
(***************************************************************************)
MaxEstRows == 2     \* rows of a classified collection

\* Decimal text of a number below 100.
Digit == [d \in 0..9 |->
            CASE d = 0 -> "0" [] d = 1 -> "1" [] d = 2 -> "2" [] d = 3 -> "3"
              [] d = 4 -> "4" [] d = 5 -> "5" [] d = 6 -> "6" [] d = 7 -> "7"
              [] d = 8 -> "8" [] OTHER -> "9"]

NumStr(n) == IF n < 10 THEN <<Digit[n]>> ELSE <<Digit[n \div 10], Digit[n % 10]>>

CORTE == <<"C", "O", "R", "T", "E">>

\* The six spellings of one cut number in the lookup lists: the last two
\* hold a space before CORTE.
CutRules(d) ==
    {<<d, "ORD", "C">>, <<d, "DEG", "C">>, <<d, "ORD">>, <<d, "DEG">>,
     <<d, "ORD", " ">> \o CORTE, <<d, "DEG", " ">> \o CORTE}

rules_1c ==
    {NumStr(n) \o <<"M">> : n \in 9..18} \cup {<<"2", "V", "E", "R">>}

rules_2c == CutRules("2")
rules_3c == CutRules("3")
rules_4c == CutRules("4")

\* __create_5c_list_values: eight spellings of every number from 5 to 30.
rules_5c ==
    UNION {{NumStr(n) \o <<"ORD", "C">>, NumStr(n) \o <<"DEG", "C">>,
            NumStr(n) \o <<"ORD">>, NumStr(n) \o <<"DEG">>,
            NumStr(n) \o <<"ORD">> \o CORTE, NumStr(n) \o <<"DEG">> \o CORTE,
            NumStr(n) \o <<"ORD", "C", "+">>, NumStr(n) \o <<"DEG", "C", "+">>}
           : n \in 5..30}

rules_plantio ==
    {<<"1", "2", "M", "F">>, <<"1", "5", "M", "F">>, <<"1", "8", "M", "F">>,
     <<"9", "M", "F">>}

rules_adef ==
    {<<>>, <<"E", "X", "P">>, <<"P", "O", "U">>,
     <<"P", "O", "U", "S", "I", "O">>, <<"A", "D", "E", "F">>}

rules_bis ==
    {<<"B", "I", "S">>, <<"B", "I", "S", "A", "D", "A">>,
     <<"B", "I", "S", "A", "N", "O", "E", "M", "E", "I", "O">>,
     <<"S", "O", "Q", "U", "E", "I", "R", "A">>, <<"S", "O", "Q">>}

\* Series.str.replace(ch, ''): a null stays null.
StrRemove(s, ch) == IF s = NULL THEN NULL ELSE SelectSeq(s, LAMBDA c : c # ch)

\* Series.str[-n:] == suffix (false for a null).
EndsWith(s, suffix) ==
    /\ s # NULL
    /\ Len(s) >= Len(suffix)
    /\ SubSeq(s, Len(s) - Len(suffix) + 1, Len(s)) = suffix

\* Series.str[0] == ch (false for a null and for '').
StartsWith(s, ch) == s # NULL /\ Len(s) > 0 /\ s[1] = ch

\* Mutant: an assignment that leaves an already classified row alone.
SetWhereEmpty(column, mask, value) ==
    [i \in DOMAIN column |-> IF mask[i] /\ column[i] = "" THEN value ELSE column[i]]

\* geodataframe.loc[mask, column] = value
SetWhere(column, mask, value) ==
    [i \in DOMAIN column |-> IF mask[i] THEN value ELSE column[i]]

\* ESTAGIO values found in shapefiles.
RawEstagios ==
    {<<"2", "DEG", "C">>, <<"2", "ORD", "C">>,
     <<"2", "ORD", " ">> \o CORTE, <<"2", "DEG", " ">> \o CORTE,
     <<"2", "ACIRC", "DEG", "C">>, <<"3", "ORD">>, <<"7", "DEG", " ">> \o CORTE,
     <<"1", "2", "M">>, <<"1", "2", "M", "F">>, <<"R", "E", "F">>,
     <<">", "5", "B">>, <<">", "B", "I", "S">>, <<"1", "8", "B">>,
     <<"5", "ORD", "C", "+">>, <<"S", "O", "Q">>, <<"X", "Y">>, <<>>, NULL}

\* IntersectNdvi.__create_estagio_column: strip the stray accent and the spaces.
create_estagio_column ==
    /\ epc = "format"
    /\ ESTAGIO' = [i \in DOMAIN estagio_raw |->
                      StrRemove(StrRemove(estagio_raw[i], "ACIRC"), " ")]
    /\ ESTAGIO_D' = [i \in DOMAIN estagio_raw |-> ""]
    /\ epc' = "adef_ref_plantio"
    /\ UNCHANGED estagio_raw
    /\ UNCHANGED notEstagios

classify_adef_ref_plantio ==
    /\ epc = "adef_ref_plantio"
    /\ LET adef == SetWhere(ESTAGIO_D,
                       [i \in DOMAIN ESTAGIO |->
                           ESTAGIO[i] \in rules_adef \/ ESTAGIO[i] = NULL],
                       "ADEF")
           plantio == SetWhere(adef,
                          [i \in DOMAIN ESTAGIO |-> ESTAGIO[i] \in rules_plantio],
                          "PLANTIO")
       IN  ESTAGIO_D' = SetWhere(plantio,
                            [i \in DOMAIN ESTAGIO |-> ESTAGIO[i] = <<"R", "E", "F">>],
                            "REF")
    /\ epc' = "bis"
    /\ UNCHANGED <<estagio_raw, ESTAGIO>>
    /\ UNCHANGED notEstagios

classify_bis ==
    /\ epc = "bis"
    /\ ESTAGIO_D' = SetWhere(ESTAGIO_D,
                        [i \in DOMAIN ESTAGIO |->
                            \/ EndsWith(ESTAGIO[i], <<"B">>)
                            \/ EndsWith(ESTAGIO[i], <<"B", "I", "S">>)
                            \/ ESTAGIO[i] \in rules_bis],
                        "BIS")
    /\ epc' = "cortes"
    /\ UNCHANGED <<estagio_raw, ESTAGIO>>
    /\ UNCHANGED notEstagios

classify_cortes ==
    /\ epc = "cortes"
    /\ LET c1 == SetWhere(ESTAGIO_D, [i \in DOMAIN ESTAGIO |-> ESTAGIO[i] \in rules_1c], "1C")
           c2 == SetWhere(c1, [i \in DOMAIN ESTAGIO |-> ESTAGIO[i] \in rules_2c], "2C")
           c3 == SetWhere(c2, [i \in DOMAIN ESTAGIO |-> ESTAGIO[i] \in rules_3c], "3C")
           c4 == SetWhere(c3, [i \in DOMAIN ESTAGIO |-> ESTAGIO[i] \in rules_4c], "4C")
       IN  ESTAGIO_D' = SetWhere(c4,
                            [i \in DOMAIN ESTAGIO |->
                                ESTAGIO[i] \in rules_5c \/ StartsWith(ESTAGIO[i], ">")],
                            "5C+")
    /\ epc' = "classified"
    /\ UNCHANGED <<estagio_raw, ESTAGIO>>
    /\ UNCHANGED notEstagios

EstagiosInit ==
    /\ estagio_raw \in UNION {[1..n -> RawEstagios] : n \in 1..MaxEstRows}
    /\ ESTAGIO = estagio_raw
    /\ ESTAGIO_D = [i \in DOMAIN estagio_raw |-> ""]
    /\ epc = "format"

InitEstagios ==
    EstagiosInit /\ LoaderIdle /\ ValidationIdle /\ SummaryIdle /\ GeometryIdle /\ HelpersIdle

NextEstagios ==
    \/ create_estagio_column
    \/ classify_adef_ref_plantio
    \/ classify_bis
    \/ classify_cortes

SpecEstagios == InitEstagios /\ [][NextEstagios]_vars

\* C6: every row whose raw ESTAGIO is '2(deg)C', '2(ord)C', '2(ord) CORTE' or
\* '2(deg) CORTE' ends the classification with ESTAGIO_D = '2(ord)C'.
C6_SecondCutSpellings ==
    epc = "classified" =>
        \A i \in DOMAIN estagio_raw :
            estagio_raw[i] \in {<<"2", "DEG", "C">>, <<"2", "ORD", "C">>,
                                <<"2", "ORD", " ">> \o CORTE,
                                <<"2", "DEG", " ">> \o CORTE}
                => ESTAGIO_D[i] = "2C"

\* The label of the last rule a formatted ESTAGIO matches, in the order ADEF
\* (null, empty, list), PLANTIO (list), REF (exact), BIS (suffix 'B' or 'BIS',
\* or list), 1oC, 2oC, 3oC, 4oC (lists), 5oC+ (list, or first character '>').
LastMatchingRule(e) ==
    LET isnull == e = NULL
        text == IF isnull THEN <<>> ELSE e
        n == Len(text)
    IN  IF (n > 0 /\ text[1] = ">") \/ e \in rules_5c THEN "5C+"
        ELSE IF e \in rules_4c THEN "4C"
        ELSE IF e \in rules_3c THEN "3C"
        ELSE IF e \in rules_2c THEN "2C"
        ELSE IF e \in rules_1c THEN "1C"
        ELSE IF \/ (n >= 1 /\ text[n] = "B")
                \/ (n >= 3 /\ SubSeq(text, n - 2, n) = <<"B", "I", "S">>)
                \/ e \in rules_bis THEN "BIS"
        ELSE IF e = <<"R", "E", "F">> THEN "REF"
        ELSE IF e \in rules_plantio THEN "PLANTIO"
        ELSE IF isnull \/ e \in rules_adef THEN "ADEF"
        ELSE ""

\* C14: stage classification is last-match-wins in a fixed order: every row's
\* ESTAGIO_D is the label of the last rule its ESTAGIO matches (ADEF, PLANTIO,
\* REF, BIS, 1oC, 2oC, 3oC, 4oC, 5oC+), and '' when it matches none.
C14_LastMatchWins ==
    epc = "classified" =>
        \A i \in DOMAIN ESTAGIO : ESTAGIO_D[i] = LastMatchingRule(ESTAGIO[i])

\* A value starting with '>' and ending in 'B' came out as 5oC+, next to a
\* value that matches no rule and kept ''.
C14_Witness ==
    /\ epc = "classified"
    /\ Len(ESTAGIO) = 2
    /\ ESTAGIO[1] = <<">", "5", "B">>
    /\ ESTAGIO_D[1] = "5C+"
    /\ ESTAGIO[2] = <<"X", "Y">>
    /\ ESTAGIO_D[2] = ""

(***************************************************************************)
(* IntersectNdviSummarized: the two rollups                                *)
(*                                                                         *)
(* A text value is a sequence of pieces, "_" being a piece of its own, so  *)
(* that two texts are equal exactly when their sequences are.  The order   *)
(* of the rows of a grouped result is not modelled: a result is a set.     *)
(***************************************************************************)
MaxAggRows == 3     \* rows of a summarized collection

\* The unit the summary is made for: IntersectNdviSummarized(safra, janela, client_id).
agg_client_id == <<"7">>
agg_safra == 2025
agg_janela == <<"J1">>

\* Series.astype(str) of a text column: a null becomes a text of its own
\* ('None', 'nan' or '<NA>' by the kind of null), written '<NA>' here.
AsStr(v) == IF v = NULL THEN <<"<NA>">> ELSE v

\* The columns that hold numbers: the validation left no null in GRIDCODE.
NumericColumns == {"gridcode", "area_ndvi"}

IntStr(n) == <<ToString(n)>>

\* Series.astype(int) of the SAFRA text.
StrInt(s) == CHOOSE n \in 2000..2100 : IntStr(n) = s

\* The classified rows: ESTAGIO_D, TP_PROP and GRIDCODE passed the validation
\* and DATA_IMG is the one date of the collection; FAZENDA, VARIEDADE and an
\* upstream JAN_COL are not validated and may be null.
BaseRow ==
    [fazenda |-> <<"FAZ1">>, gridcode |-> 1, estagio_d |-> <<"1C">>,
     tp_prop |-> <<"PROPRIAS">>, variedade |-> <<"VAR1">>,
     jan_col |-> <<"INICIO">>, data_img |-> <<"2025-03-01">>]

RowShapes ==
    {BaseRow,
     [BaseRow EXCEPT !.fazenda = <<"FAZ2">>],
     [BaseRow EXCEPT !.tp_prop = <<"FORNECEDORES">>],
     [BaseRow EXCEPT !.variedade = <<"VAR2">>],
     [BaseRow EXCEPT !.jan_col = NULL]}

Areas == {15, 20, 30}   \* area_ndvi in tenths of a hectare

WithArea(r, a) ==
    [fazenda |-> r.fazenda, gridcode |-> r.gridcode, estagio_d |-> r.estagio_d,
     tp_prop |-> r.tp_prop, variedade |-> r.variedade, jan_col |-> r.jan_col,
     data_img |-> r.data_img, area_ndvi |-> a]

ClassifiedRows == {WithArea(r, a) : r \in RowShapes, a \in Areas}

\* __format_columns: SAFRA (as text), JANELA and ESTAGIO = ESTAGIO_D are set on the rows.
FormatRow(r) ==
    [fazenda |-> r.fazenda, gridcode |-> r.gridcode, estagio_d |-> r.estagio_d,
     tp_prop |-> r.tp_prop, variedade |-> r.variedade, jan_col |-> r.jan_col,
     data_img |-> r.data_img, area_ndvi |-> r.area_ndvi,
     safra |-> IntStr(agg_safra), janela |-> agg_janela, estagio |-> r.estagio_d]

\* __create_chave_column
Chave(r) ==
    AsStr(r.fazenda) \o <<"_">> \o IntStr(r.gridcode) \o <<"_">> \o
    AsStr(r.estagio) \o <<"_">> \o AsStr(r.tp_prop) \o <<"_">> \o
    AsStr(r.variedade) \o <<"_">> \o AsStr(r.jan_col) \o <<"_">> \o
    AsStr(r.safra) \o <<"_">> \o AsStr(r.janela)

\* Mutant: an aggregation that keeps the first area instead of the sum.
FirstArea(rows) == IF rows = <<>> THEN 0 ELSE rows[1].area_ndvi

\* agg 'sum' over the rows of a group.
RECURSIVE SumArea(_)
SumArea(rows) ==
    IF rows = <<>> THEN 0 ELSE rows[1].area_ndvi + SumArea(Tail(rows))

\* agg 'first': the first value of the group that is not null.
FirstValue(rows, column) ==
    LET present == SelectSeq(rows, LAMBDA r : column \in NumericColumns \/ r[column] # NULL)
    IN  IF present = <<>> THEN NULL ELSE present[1][column]

\* groupby(['chave']).agg({... 'first', 'area_ndvi': 'sum'}).reset_index()
GroupByChave(rows) ==
    LET keys == {Chave(rows[i]) : i \in 1..Len(rows)}
        Group(k) == SelectSeq(rows, LAMBDA r : Chave(r) = k)
    IN  {[chave |-> k,
          safra |-> FirstValue(Group(k), "safra"),
          fazenda |-> FirstValue(Group(k), "fazenda"),
          gridcode |-> FirstValue(Group(k), "gridcode"),
          estagio |-> FirstValue(Group(k), "estagio"),
          tp_prop |-> FirstValue(Group(k), "tp_prop"),
          variedade |-> FirstValue(Group(k), "variedade"),
          jan_col |-> FirstValue(Group(k), "jan_col"),
          janela |-> FirstValue(Group(k), "janela"),
          area_ndvi |-> SumArea(Group(k)),
          data_img |-> FirstValue(Group(k), "data_img")] : k \in keys}

\* __create_chave_final_column: client, season, window, stage, harvest window, grid-code.
ChaveFinal(r) ==
    agg_client_id \o <<"_">> \o IntStr(r.safra) \o <<"_">> \o AsStr(r.janela)
    \o <<"_">> \o AsStr(r.estagio) \o <<"_">> \o AsStr(r.jan_col) \o <<"_">>
    \o IntStr(r.gridcode)

\* list_columns of __groupby_data_final.
FinalColumns(r) ==
    [chave |-> ChaveFinal(r), safra |-> r.safra, janela |-> r.janela,
     estagio |-> r.estagio, jan_col |-> r.jan_col, gridcode |-> r.gridcode,
     tp_prop |-> r.tp_prop, data_img |-> r.data_img]

\* A group key of groupby(list_columns) holds a null: the default dropna=True
\* leaves such rows out of every group.
HasNullKey(k) ==
    \E c \in {"chave", "janela", "estagio", "jan_col", "tp_prop", "data_img"} :
        k[c] = NULL

RECURSIVE SumAreaOf(_)
SumAreaOf(rows) ==
    IF rows = {} THEN 0
    ELSE LET r == CHOOSE x \in rows : TRUE
         IN  r.area_ndvi + SumAreaOf(rows \ {r})

\* groupby(list_columns, as_index=False).agg({'area_ndvi': 'sum'})
GroupByFinal(rows) ==
    LET keys == {FinalColumns(r) : r \in rows}
        kept == {k \in keys : ~HasNullKey(k)}
    IN  {[chave |-> k.chave, safra |-> k.safra, janela |-> k.janela,
          estagio |-> k.estagio, jan_col |-> k.jan_col, gridcode |-> k.gridcode,
          tp_prop |-> k.tp_prop, data_img |-> k.data_img,
          area_ndvi |-> SumAreaOf({r \in rows : FinalColumns(r) = k})] : k \in kept}

format_columns ==
    /\ apc = "format"
    /\ intersect_ndvi_data' =
          [i \in DOMAIN intersect_ndvi_data |-> FormatRow(intersect_ndvi_data[i])]
    /\ apc' = "chave"
    /\ UNCHANGED <<by_chave, data_final>>
    /\ UNCHANGED notSummary

groupby_intersect_ndvi_data_by_chave ==
    /\ apc = "chave"
    /\ by_chave' = GroupByChave(intersect_ndvi_data)
    /\ apc' = "final"
    /\ UNCHANGED <<intersect_ndvi_data, data_final>>
    /\ UNCHANGED notSummary

groupby_data_final ==
    /\ apc = "final"
    /\ data_final' = GroupByFinal({[r EXCEPT !.safra = StrInt(r.safra)] : r \in by_chave})
    /\ apc' = "summarized"
    /\ UNCHANGED <<intersect_ndvi_data, by_chave>>
    /\ UNCHANGED notSummary

SummaryInit ==
    /\ intersect_ndvi_data \in UNION {[1..n -> ClassifiedRows] : n \in 1..MaxAggRows}
    /\ by_chave = {}
    /\ data_final = {}
    /\ apc = "format"

InitSummary ==
    SummaryInit /\ LoaderIdle /\ ValidationIdle /\ EstagiosIdle /\ GeometryIdle /\ HelpersIdle

NextSummary ==
    \/ format_columns
    \/ groupby_intersect_ndvi_data_by_chave
    \/ groupby_data_final

SpecSummary == InitSummary /\ [][NextSummary]_vars

\* The attributes a phase-1 key is made of (season and window are those of the unit).
KeyAttributes(r) ==
    <<r.fazenda, r.gridcode, r.estagio_d, r.tp_prop, r.variedade, r.jan_col>>

\* The rows of the input that share the phase-1 key attributes of row i.
SameKey(i) ==
    {j \in DOMAIN intersect_ndvi_data :
        KeyAttributes(intersect_ndvi_data[j]) = KeyAttributes(intersect_ndvi_data[i])}

RECURSIVE AreaOfRows(_)
AreaOfRows(idxs) ==
    IF idxs = {} THEN 0
    ELSE LET i == CHOOSE x \in idxs : TRUE
         IN  intersect_ndvi_data[i].area_ndvi + AreaOfRows(idxs \ {i})

FirstOf(idxs) == CHOOSE i \in idxs : \A j \in idxs : i <= j

\* C7: phase 1 gives exactly one row per distinct phase-1 key (farm, grid-code,
\* derived stage, ownership type, variety, harvest window, season, time window
\* joined by '_'); its area_ndvi is the sum of the area_ndvi of all the input
\* rows with that key and its other attributes are those of the first such row.
C7_PhaseOneRollup ==
    apc \in {"final", "summarized"} =>
        /\ Cardinality(by_chave) =
              Cardinality({KeyAttributes(intersect_ndvi_data[i]) :
                              i \in DOMAIN intersect_ndvi_data})
        /\ \A i \in DOMAIN intersect_ndvi_data :
              LET r == intersect_ndvi_data[i]
                  f == intersect_ndvi_data[FirstOf(SameKey(i))]
                  out == {o \in by_chave :
                             o.chave = r.fazenda \o <<"_">> \o IntStr(r.gridcode)
                                 \o <<"_">> \o r.estagio_d \o <<"_">> \o r.tp_prop
                                 \o <<"_">> \o r.variedade \o <<"_">>
                                 \o AsStr(r.jan_col) \o <<"_">> \o IntStr(agg_safra)
                                 \o <<"_">> \o agg_janela}
              IN  /\ Cardinality(out) = 1
                  /\ \A o \in out :
                        /\ o.area_ndvi = AreaOfRows(SameKey(i))
                        /\ o.fazenda = f.fazenda
                        /\ o.gridcode = f.gridcode
                        /\ o.estagio = f.estagio_d
                        /\ o.tp_prop = f.tp_prop
                        /\ o.variedade = f.variedade
                        /\ o.jan_col = f.jan_col
                        /\ o.data_img = f.data_img
                        /\ o.safra = IntStr(agg_safra)
                        /\ o.janela = agg_janela

\* Three rows of areas 2.0, 3.0 and 1.5 sharing one key became one row of area 6.5.
C7_Witness ==
    /\ apc = "final"
    /\ Len(intersect_ndvi_data) = 3
    /\ \A i \in 1..3 : KeyAttributes(intersect_ndvi_data[i]) = KeyAttributes(BaseRow)
    /\ <<intersect_ndvi_data[1].area_ndvi, intersect_ndvi_data[2].area_ndvi,
         intersect_ndvi_data[3].area_ndvi>> = <<20, 30, 15>>
    /\ Cardinality(by_chave) = 1
    /\ \A o \in by_chave :
          /\ o.area_ndvi = 65
          /\ o.chave = <<"FAZ1", "_", "1", "_", "1C", "_", "PROPRIAS", "_", "VAR1",
                         "_", "INICIO", "_", "2025", "_", "J1">>

\* C8: the sum of area_ndvi over the rows ndvi_data_summarized returns equals
\* the sum of area_ndvi over the input rows, rows with a null in a phase-2
\* grouping column included.
C8_AreaConserved ==
    apc = "summarized" =>
        SumAreaOf(data_final) = AreaOfRows(DOMAIN intersect_ndvi_data)

\* The rows of the input that agree with row i on derived stage, harvest
\* window and grid-code (season and time window are those of the unit).
SameFinalKey(i) ==
    {j \in DOMAIN intersect_ndvi_data :
        /\ intersect_ndvi_data[j].estagio_d = intersect_ndvi_data[i].estagio_d
        /\ intersect_ndvi_data[j].jan_col = intersect_ndvi_data[i].jan_col
        /\ intersect_ndvi_data[j].gridcode = intersect_ndvi_data[i].gridcode}

DifferOnlyInOne(r, q) ==
    Cardinality({c \in {"fazenda", "tp_prop", "variedade"} : r[c] # q[c]}) = 1

\* C9: two input rows that agree on season, time window, derived stage,
\* harvest window and grid-code and differ only in farm, in ownership type or
\* in variety are merged into a single final row whose area_ndvi is their sum.
C9_GranularityDiscarded ==
    apc = "summarized" =>
        \A i, j \in DOMAIN intersect_ndvi_data :
            (/\ i < j
             /\ j \in SameFinalKey(i)
             /\ DifferOnlyInOne(intersect_ndvi_data[i], intersect_ndvi_data[j]))
            => LET out == {o \in data_final :
                              /\ o.estagio = intersect_ndvi_data[i].estagio_d
                              /\ o.jan_col = intersect_ndvi_data[i].jan_col
                              /\ o.gridcode = intersect_ndvi_data[i].gridcode}
               IN  /\ Cardinality(out) = 1
                   /\ \A o \in out : o.area_ndvi = AreaOfRows(SameFinalKey(i))

(***************************************************************************)
(* MakeValidGeometries: the repair of a collection of geometries           *)
(*                                                                         *)
(* A geometry is known by what the repair looks at: its type, whether it   *)
(* is valid, whether it is empty, and what it is made of: polys, the       *)
(* number of parts of positive area; lines, the number of parts without    *)
(* area (a member line of a collection, or the zero-width remnant of a     *)
(* ring that make_valid keeps as a line); points, the member points of a   *)
(* collection.  A change of coordinate system moves the coordinates and    *)
(* leaves these untouched.                                                 *)
(***************************************************************************)
MaxGeoRows == 2     \* features of a collection

Geometry(type, is_valid, is_empty, polys, lines, points) ==
    [geom_type |-> type, is_valid |-> is_valid, is_empty |-> is_empty,
     polys |-> polys, lines |-> lines, points |-> points]

InputGeometries ==
    {Geometry("Polygon", TRUE, FALSE, 1, 0, 0),             \* a sound polygon
     Geometry("Polygon", FALSE, FALSE, 2, 0, 0),            \* a bow tie
     Geometry("Polygon", FALSE, FALSE, 1, 1, 0),            \* a polygon with a zero-width spike
     Geometry("Polygon", FALSE, FALSE, 0, 1, 0),            \* a ring collapsed onto a line
     Geometry("Polygon", TRUE, TRUE, 0, 0, 0),              \* POLYGON EMPTY
     Geometry("MultiPolygon", TRUE, FALSE, 2, 0, 0),
     Geometry("MultiPolygon", FALSE, FALSE, 1, 0, 0),       \* two overlapping parts
     Geometry("GeometryCollection", TRUE, FALSE, 1, 1, 0),  \* a polygon and a line
     Geometry("GeometryCollection", TRUE, FALSE, 0, 1, 0),  \* lines only
     Geometry("GeometryCollection", TRUE, FALSE, 0, 0, 1),  \* points only
     Geometry("LineString", TRUE, FALSE, 0, 1, 0),
     Geometry("Point", TRUE, FALSE, 0, 0, 1),
     Geometry("None", TRUE, FALSE, 0, 0, 0)}                \* a feature without geometry

InputCrs == {"4326", "31982", "none"}

geoM_type_list == {"Polygon", "MultiPolygon", "GeometryCollection"}

\* The polygonal geometry of a given number of parts of positive area.
Polygonal(polys) ==
    IF polys = 0 THEN Geometry("Polygon", TRUE, TRUE, 0, 0, 0)
    ELSE IF polys = 1 THEN Geometry("Polygon", TRUE, FALSE, 1, 0, 0)
    ELSE Geometry("MultiPolygon", TRUE, FALSE, polys, 0, 0)

\* geometry.buffer(0): the valid polygonal geometry of the area of g; what has
\* no area (lines, points) is gone, and nothing left is POLYGON EMPTY.
Buffer0(g) == Polygonal(g.polys)

\* shapely.validation.make_valid of an invalid polygon: nothing of the input
\* is dropped, so a zero-width part comes back as a line.
MakeValid(g) ==
    IF g.lines = 0 THEN Polygonal(g.polys)
    ELSE IF g.polys = 0 THEN Geometry("LineString", TRUE, FALSE, 0, g.lines, 0)
    ELSE Geometry("GeometryCollection", TRUE, FALSE, g.polys, g.lines, 0)

\* ImproveGeometryCollections.geometry_collection_to_multipolygon: the members
\* that are not a LineString are dissolved and the union goes through buffer(0).
geometry_collection_to_multipolygon(g) ==
    Buffer0(Geometry("GeometryCollection", TRUE, FALSE, g.polys, 0, g.points))

\* No member is kept: the dissolve of the empty frame raises.
NothingToDissolve(g) ==
    g.geom_type = "GeometryCollection" /\ g.polys = 0 /\ g.points = 0

\* Mutant: the repair without its closing buffer(0) over every geometry.
BufferAllSkipped(features) == features

\* geodataframe['geometry'] = geodataframe.buffer(0)
BufferAll(features) == [i \in DOMAIN features |-> Buffer0(features[i])]

\* ReprojectGeometries(to='4326').__reproject: to_crs, and where it raises
\* (a frame without coordinate system) the label alone is set.
Reproject(frame) == [crs |-> "4326", features |-> frame.features]

\* MakeValidGeometries.__init__
MakeValidGeometries_init ==
    /\ gpc = "new"
    /\ geodataframe' =
          [geodataframe EXCEPT !.features =
              SelectSeq(geodataframe.features,
                        LAMBDA g : ~g.is_empty /\ g.geom_type \in geoM_type_list)]
    /\ gpc' = "filtered"
    /\ UNCHANGED g_input
    /\ UNCHANGED notGeometry

improve_geometry_collection ==
    /\ gpc = "filtered"
    /\ \A i \in DOMAIN geodataframe.features :
          ~NothingToDissolve(geodataframe.features[i])
    /\ geodataframe' =
          [geodataframe EXCEPT !.features =
              [i \in DOMAIN geodataframe.features |->
                  IF geodataframe.features[i].geom_type = "GeometryCollection"
                  THEN geometry_collection_to_multipolygon(geodataframe.features[i])
                  ELSE geodataframe.features[i]]]
    /\ gpc' = "collections"
    /\ UNCHANGED g_input
    /\ UNCHANGED notGeometry

\* A collection of lines only: improve_geometry raises and returns nothing.
improve_geometry_collection_raises ==
    /\ gpc = "filtered"
    /\ \E i \in DOMAIN geodataframe.features :
          NothingToDissolve(geodataframe.features[i])
    /\ gpc' = "raised"
    /\ UNCHANGED <<g_input, geodataframe>>
    /\ UNCHANGED notGeometry

\* __make_valid: each invalid geometry is replaced by make_valid's result, or,
\* where that assignment raises, by its own buffer(0); then buffer(0) over
\* every geometry and the reprojection to EPSG:4326.
make_valid ==
    /\ gpc = "collections"
    /\ \E assigned \in [DOMAIN geodataframe.features -> BOOLEAN] :
          LET fixed == [i \in DOMAIN geodataframe.features |->
                           LET g == geodataframe.features[i]
                           IN  IF g.is_valid THEN g
                               ELSE IF assigned[i] THEN MakeValid(g)
                               ELSE Buffer0(g)]
          IN  geodataframe' =
                  Reproject([geodataframe EXCEPT !.features = BufferAll(fixed)])
    /\ gpc' = "repaired"
    /\ UNCHANGED g_input
    /\ UNCHANGED notGeometry

\* __make_valid: shapely's make_valid is called outside the try, so when it
\* raises on an invalid geometry the exception leaves improve_geometry.
make_valid_raises ==
    /\ gpc = "collections"
    /\ \E i \in DOMAIN geodataframe.features : ~geodataframe.features[i].is_valid
    /\ gpc' = "raised"
    /\ UNCHANGED <<g_input, geodataframe>>
    /\ UNCHANGED notGeometry

GeometryInit ==
    /\ g_input \in UNION {[1..n -> InputGeometries] : n \in 1..MaxGeoRows}
    /\ \E crs \in InputCrs : geodataframe = [crs |-> crs, features |-> g_input]
    /\ gpc = "new"

InitGeometry ==
    GeometryInit /\ LoaderIdle /\ ValidationIdle /\ EstagiosIdle /\ SummaryIdle /\ HelpersIdle

NextGeometry ==
    \/ MakeValidGeometries_init
    \/ improve_geometry_collection
    \/ improve_geometry_collection_raises
    \/ make_valid
    \/ make_valid_raises

SpecGeometry == InitGeometry /\ [][NextGeometry]_vars

\* C10 as stated: every geometry in the output of improve_geometry is valid
\* and of type Polygon or MultiPolygon; no GeometryCollection, LineString or
\* empty geometry survives the repair.
C10_NoEmptySurvives ==
    gpc = "repaired" =>
        \A i \in DOMAIN geodataframe.features :
            /\ geodataframe.features[i].is_valid
            /\ geodataframe.features[i].geom_type \in {"Polygon", "MultiPolygon"}
            /\ ~geodataframe.features[i].is_empty

\* C10 amended: every geometry in the output of improve_geometry is valid and
\* of type Polygon or MultiPolygon, so no GeometryCollection and no LineString
\* survives the repair; an empty Polygon can survive it.
C10_RepairedAreValidPolygons ==
    gpc = "repaired" =>
        \A i \in DOMAIN geodataframe.features :
            /\ geodataframe.features[i].is_valid
            /\ geodataframe.features[i].geom_type \in {"Polygon", "MultiPolygon"}

\* A polygon with a spike and a collection of a polygon and a line went
\* through the repair, and both came out as valid polygons.
C10_Witness ==
    /\ gpc = "repaired"
    /\ Len(g_input) = 2
    /\ g_input[1] = Geometry("Polygon", FALSE, FALSE, 1, 1, 0)
    /\ g_input[2] = Geometry("GeometryCollection", TRUE, FALSE, 1, 1, 0)
    /\ Len(geodataframe.features) = 2
    /\ \A i \in 1..2 : geodataframe.features[i] = Geometry("Polygon", TRUE, FALSE, 1, 0, 0)


\* The features of the input that have an allowed type and are not empty.
AllowedFeatures ==
    SelectSeq(g_input, LAMBDA g : ~g.is_empty /\ g.geom_type \in geoM_type_list)

\* C22: the repair never aborts: improve_geometry returns normally, where
\* make_valid fails the feature falls back to buffer(0), and every input
\* feature of an allowed type with a non-empty geometry is in the output.
C22_RepairNeverAborts ==
    /\ gpc # "raised"
    /\ gpc = "repaired" => Len(geodataframe.features) = Len(AllowedFeatures)

(***************************************************************************)
(* ReprojectGeometries                                                     *)
(*                                                                         *)
(* A collection is [crs, coords, features]: crs is the tag of the frame    *)
(* ("none" when it has none), coords names the system its coordinates are  *)
(* really expressed in ("garbage" once a transform started from a wrong    *)
(* tag), and a feature is known by its centroid: south of the equator or   *)
(* not, and its UTM zone.                                                  *)
(***************************************************************************)
MaxReprojRows == 2  \* features of a reprojected collection

CoreIdle ==
    /\ LoaderIdle /\ ValidationIdle /\ EstagiosIdle /\ SummaryIdle /\ GeometryIdle
    /\ ReprojectIdle /\ DissolveIdle /\ JanelaIdle /\ ContratosIdle /\ DateImageIdle

PipelineIdle ==
    /\ LoaderIdle /\ ValidationIdle /\ EstagiosIdle /\ SummaryIdle /\ GeometryIdle
    /\ MoreIdle

Targets == {"4326", "31982", "utm"}

Centroids == [south : BOOLEAN, zone : {22, 23}]

ReprojectInputs ==
    {[crs |-> t, coords |-> c, features |-> f] :
        t \in {"4326", "31982", "none"}, c \in {"4326", "31982"},
        f \in UNION {[1..n -> Centroids] : n \in 1..MaxReprojRows}}

\* A frame carries its own tag or none at all.
WellTagged(frame) == frame.crs \in {frame.coords, "none"}

\* GeoDataFrame.to_crs raises on a frame without a coordinate system.
CanTransform(frame) == frame.crs # "none"

\* GeoDataFrame.to_crs(epsg=...): the coordinates are moved to the target; a
\* frame already tagged with the target is returned as it is.
ToCrs(frame, epsg) ==
    IF frame.crs = epsg THEN frame
    ELSE [frame EXCEPT !.crs = epsg,
                       !.coords = IF frame.crs = frame.coords THEN epsg
                                  ELSE "garbage"]

\* Mutant: the fallback that leaves the tag as it was.
RelabelSkipped(frame, epsg) == frame

\* self.geodataframe.crs = f"EPSG:{...}": the tag alone is set.
Relabel(frame, epsg) == [frame EXCEPT !.crs = epsg]

ZoneEpsg(zone) == ToString(32700 + zone)

\* Mutant: the walk that stops at the first row of negative latitude.
UtmFirstSouth(frame, rows) ==
    IF \A i \in DOMAIN rows : ~rows[i].south THEN frame
    ELSE LET first == CHOOSE i \in DOMAIN rows :
                          /\ rows[i].south
                          /\ \A j \in 1..(i - 1) : ~rows[j].south
         IN  IF CanTransform(frame) THEN ToCrs(frame, ZoneEpsg(rows[first].zone))
             ELSE Relabel(frame, ZoneEpsg(rows[first].zone))

\* __reproject_to_utm: the rows of the frame as it was handed over are walked;
\* at each row whose centroid has a negative latitude the whole frame goes to
\* EPSG 32700 + zone of that row, by transform or, where that raises, by tag.
RECURSIVE UtmLoop(_, _)
UtmLoop(frame, rows) ==
    IF rows = <<>> THEN frame
    ELSE IF ~Head(rows).south THEN UtmLoop(frame, Tail(rows))
    ELSE IF CanTransform(frame)
         THEN UtmLoop(ToCrs(frame, ZoneEpsg(Head(rows).zone)), Tail(rows))
         ELSE UtmLoop(Relabel(frame, ZoneEpsg(Head(rows).zone)), Tail(rows))

\* __reproject, to_crs went through.
reproject_transformed ==
    /\ rpc = "new"
    /\ r_to # "utm"
    /\ CanTransform(r_frame)
    /\ r_frame' = ToCrs(r_frame, r_to)
    /\ rpc' = "transformed"
    /\ UNCHANGED <<r_input, r_to>>
    /\ UNCHANGED notReproject

\* __reproject, to_crs raised (always so without a coordinate system): the
\* exception is printed and the tag is set.
reproject_relabelled ==
    /\ rpc = "new"
    /\ r_to # "utm"
    /\ r_frame' = Relabel(r_frame, r_to)
    /\ rpc' = "relabelled"
    /\ UNCHANGED <<r_input, r_to>>
    /\ UNCHANGED notReproject

\* __reproject_to_utm over coordinates that are latitudes and longitudes.
reproject_to_utm ==
    /\ rpc = "new"
    /\ r_to = "utm"
    /\ r_frame.coords = "4326"
    /\ r_frame' = UtmLoop(r_frame, r_frame.features)
    /\ rpc' = "utm"
    /\ UNCHANGED <<r_input, r_to>>
    /\ UNCHANGED notReproject

\* __reproject_to_utm over projected coordinates: utm.from_latlon raises on
\* a latitude out of range.
reproject_to_utm_raises ==
    /\ rpc = "new"
    /\ r_to = "utm"
    /\ r_frame.coords # "4326"
    /\ rpc' = "raised"
    /\ UNCHANGED <<r_input, r_frame, r_to>>
    /\ UNCHANGED notReproject

ReprojectInit ==
    /\ r_input \in {f \in ReprojectInputs : WellTagged(f)}
    /\ r_frame = r_input
    /\ r_to \in Targets
    /\ rpc = "new"

InitReproject ==
    ReprojectInit /\ PipelineIdle /\ DissolveIdle /\ JanelaIdle /\ ContratosIdle
    /\ DateImageIdle

NextReproject ==
    \/ reproject_transformed
    \/ reproject_relabelled
    \/ reproject_to_utm
    \/ reproject_to_utm_raises

SpecReproject == InitReproject /\ [][NextReproject]_vars

SouthRows == {i \in DOMAIN r_input.features : r_input.features[i].south}

MaxDissRows == 2    \* features of a dissolved collection

Cells == {1, 2, 3}

DissolveFeatures ==
    {[region |-> r, is_valid |-> v] :
        r \in SUBSET Cells, v \in BOOLEAN} \ {[region |-> {}, is_valid |-> FALSE]}

\* Mutant: a union that keeps the first geometry only.
FirstRegion(features) == features[1].region

\* unary_union of the geometries of the collection.
UnionRegion(features) == UNION {features[i].region : i \in DOMAIN features}

\* GeoDataFrame.dissolve(): one feature holding the union of all geometries;
\* a collection without features gives a collection without features.
DissolveAll(features) ==
    IF features = <<>> THEN <<>>
    ELSE <<[region |-> UnionRegion(features), is_valid |-> TRUE]>>

\* What MakeValidGeometries(...).improve_geometry() can return for the
\* collection: empty geometries are left out, valid ones are kept, and an
\* invalid one keeps its region (make_valid) or part of it (buffer(0)).
RepairOutcomes(features) ==
    LET kept == SelectSeq(features, LAMBDA g : g.region # {} \/ ~g.is_valid)
    IN  {out \in [DOMAIN kept -> DissolveFeatures] :
            \A i \in DOMAIN kept :
                /\ out[i].is_valid
                /\ IF kept[i].is_valid THEN out[i].region = kept[i].region
                   ELSE out[i].region \subseteq kept[i].region}

\* The group keys a row may have.
GroupKeys == <<"A", "B">>

\* GeoDataFrame.dissolve(by=..., as_index=False): one feature per group key,
\* in the order of the keys, holding the union of the rows of that key.
GroupedDissolve(features, keys) ==
    LET present == SelectSeq(GroupKeys,
                             LAMBDA k : \E i \in DOMAIN features : keys[i] = k)
    IN  [g \in DOMAIN present |->
            [region |-> UNION {features[i].region :
                                  i \in {j \in DOMAIN features : keys[j] = present[g]}},
             is_valid |-> TRUE]]

\* The dissolve the call asks for: grouped when group fields are given.
DissolveOf(features, keys) ==
    IF dissolve_atributes = NULL THEN DissolveAll(features)
    ELSE GroupedDissolve(features, keys)

\* The keys of the rows MakeValidGeometries keeps.
KeptKeys(features, keys) ==
    LET kept == SelectSeq([i \in DOMAIN features |-> i],
                          LAMBDA i : features[i].region # {} \/ ~features[i].is_valid)
    IN  [j \in DOMAIN kept |-> keys[kept[j]]]

\* __simple_dissolve and the grouped try: the first dissolve went through (as
\* it always does over valid geometries).
simple_dissolve ==
    /\ dpc = "new"
    /\ d_frame' = DissolveOf(d_frame, dissolve_atributes)
    /\ dpc' = "dissolved"
    /\ d_log' = Append(d_log, "dissolve")
    /\ UNCHANGED <<d_input, dissolve_atributes>>
    /\ UNCHANGED notDissolve

\* The first dissolve raised over an invalid geometry.
simple_dissolve_raises ==
    /\ dpc = "new"
    /\ \E i \in DOMAIN d_frame : ~d_frame[i].is_valid
    /\ dpc' = "retry"
    /\ d_log' = Append(d_log, "dissolve raised")
    /\ UNCHANGED <<d_input, d_frame, dissolve_atributes>>
    /\ UNCHANGED notDissolve

\* The except branch: repair, then dissolve again.
simple_dissolve_retry ==
    /\ dpc = "retry"
    /\ \E repaired \in RepairOutcomes(d_frame) :
          d_frame' = DissolveOf(repaired,
                                IF dissolve_atributes = NULL THEN NULL
                                ELSE KeptKeys(d_frame, dissolve_atributes))
    /\ dpc' = "dissolved"
    /\ d_log' = d_log \o <<"repair", "dissolve">>
    /\ UNCHANGED <<d_input, dissolve_atributes>>
    /\ UNCHANGED notDissolve

\* The except branch raises, in the repair or in the second dissolve: nothing
\* catches it.
simple_dissolve_retry_raises ==
    /\ dpc = "retry"
    /\ dpc' = "raised"
    /\ d_log' = d_log \o <<"repair", "retry raised">>
    /\ UNCHANGED <<d_input, d_frame, dissolve_atributes>>
    /\ UNCHANGED notDissolve

\* dissolve_geodataframe with group fields: an empty result raises.
dissolve_empty_raises ==
    /\ dpc = "dissolved"
    /\ dissolve_atributes # NULL
    /\ d_frame = <<>>
    /\ dpc' = "raised"
    /\ d_log' = Append(d_log, "empty raised")
    /\ UNCHANGED <<d_input, d_frame, dissolve_atributes>>
    /\ UNCHANGED notDissolve

\* Mutant: the return that skips the check of an empty result.
dissolve_returns_unchecked ==
    /\ dpc = "dissolved"
    /\ dpc' = "returned"
    /\ UNCHANGED <<d_input, d_frame, dissolve_atributes, d_log>>
    /\ UNCHANGED notDissolve

\* dissolve_geodataframe without calc_area: the result is reprojected to
\* EPSG:4326 and returned.
dissolve_returns ==
    /\ dpc = "dissolved"
    /\ dissolve_atributes = NULL \/ d_frame # <<>>
    /\ dpc' = "returned"
    /\ UNCHANGED <<d_input, d_frame, dissolve_atributes, d_log>>
    /\ UNCHANGED notDissolve

DissolveInit ==
    /\ d_input \in UNION {[1..n -> DissolveFeatures] : n \in 0..MaxDissRows}
    /\ d_frame = d_input
    /\ dpc = "new"
    /\ dissolve_atributes \in
          {NULL} \cup [DOMAIN d_input -> {GroupKeys[k] : k \in DOMAIN GroupKeys}]
    /\ d_log = <<>>

InitDissolve ==
    DissolveInit /\ PipelineIdle /\ ReprojectIdle /\ JanelaIdle /\ ContratosIdle
    /\ DateImageIdle

NextDissolve ==
    \/ simple_dissolve
    \/ simple_dissolve_raises
    \/ simple_dissolve_retry
    \/ simple_dissolve_retry_raises
    \/ dissolve_empty_raises
    \/ dissolve_returns

SpecDissolve == InitDissolve /\ [][NextDissolve]_vars

\* C12 as stated: Dissolve with no group fields returns exactly one feature,
\* whose region is the union of the regions of all input geometries.
C12_DissolveReturnsTheUnion ==
    (dpc = "returned" /\ dissolve_atributes = NULL) =>
        /\ Len(d_frame) = 1
        /\ \A i \in DOMAIN d_frame :
              d_frame[i].region = UNION {d_input[j].region : j \in DOMAIN d_input}

\* C12 amended: over a collection of at least one feature whose geometries
\* are all valid, Dissolve with no group fields returns exactly one feature,
\* whose region is the union of the regions of all input geometries (so its
\* area is the area of the union); over a collection without features it
\* returns a collection without features.
C12_DissolveOfValidIsTheUnion ==
    (dpc = "returned" /\ dissolve_atributes = NULL) =>
        /\ (d_input # <<>> /\ \A j \in DOMAIN d_input : d_input[j].is_valid) =>
              /\ Len(d_frame) = 1
              /\ d_frame[1].region = UNION {d_input[j].region : j \in DOMAIN d_input}
              /\ Cardinality(d_frame[1].region) =
                    Cardinality(UNION {d_input[j].region : j \in DOMAIN d_input})
        /\ d_input = <<>> => d_frame = <<>>

\* Two valid overlapping geometries of area 2 each came back as one feature
\* of area 3.
C12_Witness ==
    /\ dpc = "returned"
    /\ dissolve_atributes = NULL
    /\ d_input = <<[region |-> {1, 2}, is_valid |-> TRUE],
                   [region |-> {2, 3}, is_valid |-> TRUE]>>
    /\ Len(d_frame) = 1
    /\ d_frame[1].region = {1, 2, 3}


\* C26: the dissolve is attempted once on the collection as it came; only
\* when that attempt raised is the collection repaired and the dissolve
\* tried again, once; when the second try raises the call raises; an empty
\* result makes the call raise when group fields were given and is returned
\* when none was.
C26_AttemptRepairRetry ==
    /\ d_log \in {<<>>,
                  <<"dissolve">>,
                  <<"dissolve", "empty raised">>,
                  <<"dissolve raised">>,
                  <<"dissolve raised", "repair", "dissolve">>,
                  <<"dissolve raised", "repair", "dissolve", "empty raised">>,
                  <<"dissolve raised", "repair", "retry raised">>}
    /\ d_log = <<"dissolve">> =>
          d_frame = DissolveOf(d_input, dissolve_atributes)
    /\ (d_log # <<>> /\ d_log[Len(d_log)] = "retry raised") => dpc = "raised"
    /\ (d_log # <<>> /\ d_log[Len(d_log)] = "empty raised") =>
          /\ dpc = "raised"
          /\ dissolve_atributes # NULL
          /\ d_frame = <<>>
    /\ (dpc = "returned" /\ dissolve_atributes # NULL) => d_frame # <<>>
    /\ (dpc = "dissolved" /\ dissolve_atributes = NULL) => ENABLED dissolve_returns
    /\ dpc = "raised" =>
          d_log[Len(d_log)] \in {"retry raised", "empty raised"}

\* A grouped dissolve over two rows of different keys, one of them invalid:
\* the first attempt raised, the repaired collection was dissolved and two
\* features came back.
C26_Witness ==
    /\ dpc = "returned"
    /\ dissolve_atributes = <<"A", "B">>
    /\ ~d_input[1].is_valid
    /\ d_log = <<"dissolve raised", "repair", "dissolve">>
    /\ Len(d_frame) = 2

(***************************************************************************)
(* JanelaDeColheita inside IntersectNdvi.ndvi_data                         *)
(*                                                                         *)
(* JAN_COL and DT_ULT_COR are texts that may be missing: <<>> is the empty *)
(* text, NULL the missing one, <<"INICIO">> a one-word text, <<"abc">> a   *)
(* text that is no date and <<2024, 3, 15>> the text of a date (year,      *)
(* month, day).  MES_CORTE is -1 while the column does not exist.          *)
(***************************************************************************)
MaxJanRows == 2     \* rows of a classified collection

INICIO == <<"INICIO">>
MEDIA == <<"MEDIA">>
TARDIA == <<"TARDIA">>

JanelaValues == {INICIO, MEDIA, TARDIA}

JanRow(estagio, desc_cana, dt_ult_cor, idade_img, jan_col, estagio_d) ==
    [ESTAGIO |-> estagio, DESC_CANA |-> desc_cana, DT_ULT_COR |-> dt_ult_cor,
     IDADE_IMG |-> idade_img, JAN_COL |-> jan_col, MES_CORTE |-> -1,
     ESTAGIO_D |-> estagio_d, TP_PROP |-> "PROPRIAS", GRIDCODE |-> 1]

LastCutDates ==
    {NULL, <<>>, <<2024, 3, 15>>, <<2024, 7, 15>>, <<2024, 10, 15>>, <<"abc">>}

\* Rows of a collection without JAN_COL column (the value is a placeholder).
RowsWithoutJanCol ==
    {JanRow(e, d, c[1], c[2], NULL, "1C") :
        e \in {"12M", "15M", "18M", "2VER"}, d \in {"BIS", "SOCA"},
        c \in {<<<<2024, 10, 15>>, 7>>, <<<<"abc">>, 11>>}}
    \cup {JanRow("3C", "BISADA", <<2024, 10, 15>>, 7, NULL, "3C"),
          JanRow("3C", "BIS", <<"abc">>, 7, NULL, "3C"),
          JanRow("3C", "SOCA", <<"abc">>, 9, NULL, "")}
    \cup {JanRow("3C", "SOCA", c, a, NULL, "3C") :
             c \in LastCutDates \ {<<"abc">>}, a \in {7, 11}}
    \cup {JanRow("3C", "SOCA", <<"abc">>, a, NULL, "3C") : a \in {7, 8, 10, 11}}

\* Rows of a collection that came with its own JAN_COL column.
RowsWithJanCol ==
    {JanRow("12M", "BIS", <<2024, 10, 15>>, 7, j, "1C") :
        j \in JanelaValues \cup {<<>>, NULL, <<"XYZ">>}}
    \cup {JanRow("3C", "SOCA", <<"abc">>, 11, j, "3C") :
             j \in JanelaValues \cup {<<>>, NULL, <<"XYZ">>}}

MapRows(rows, F(_)) == [i \in DOMAIN rows |-> F(rows[i])]

\* __format_date_column: a missing or empty date becomes '1900-01-01', a
\* date is written year-month-day, a text that is no date becomes missing.
FormatDate(v) ==
    IF v \in {NULL, <<>>, <<"<NA>">>} THEN <<1900, 1, 1>>
    ELSE IF Len(v) = 3 THEN v
    ELSE NULL

\* pd.to_datetime(...).dt.month.fillna(0)
MonthOf(v) == IF v = NULL THEN 0 ELSE v[2]

\* (JAN_COL == '') | JAN_COL.isnull() | (JAN_COL.str.len() == 0)
Unclassified(r) == r.JAN_COL = <<>> \/ r.JAN_COL = NULL

\* __classificar_estagio on one row
ClassificarEstagio(r) ==
    [r EXCEPT !.JAN_COL =
        IF r.ESTAGIO = "12M" THEN TARDIA
        ELSE IF r.ESTAGIO = "15M" THEN MEDIA
        ELSE IF r.ESTAGIO \in {"18M", "2VER"} THEN INICIO
        ELSE <<>>]

\* Mutant: the BIS rule that leaves a row classified by its ESTAGIO alone.
ClassificarCanaBisIfEmpty(r) ==
    IF r.DESC_CANA \in {"BIS", "BISADA"} /\ r.JAN_COL = <<>>
    THEN [r EXCEPT !.JAN_COL = INICIO]
    ELSE r

\* __classificar_cana_bis on one row
ClassificarCanaBis(r) ==
    IF r.DESC_CANA \in {"BIS", "BISADA"} THEN [r EXCEPT !.JAN_COL = INICIO] ELSE r

\* __create_mes_corte_column on one row
CreateMesCorte(r) ==
    [r EXCEPT !.MES_CORTE =
        IF r.JAN_COL # NULL /\ Len(r.JAN_COL) > 0 THEN 0 ELSE MonthOf(r.DT_ULT_COR)]

\* One .loc assignment of __classificar_mes_corte.
MesCorteRule(r, months, value) ==
    IF Unclassified(r) /\ r.MES_CORTE \in months THEN [r EXCEPT !.JAN_COL = value]
    ELSE r

\* __classificar_mes_corte on one row
ClassificarMesCorte(r) ==
    MesCorteRule(MesCorteRule(MesCorteRule(CreateMesCorte(r), 1..6, INICIO),
                              {7, 8}, MEDIA),
                 9..12, TARDIA)

\* One .loc assignment of __classificar_idade_img.
IdadeImgRule(r, InBucket(_), value) ==
    IF Unclassified(r) /\ r.MES_CORTE = 0 /\ InBucket(r.IDADE_IMG)
    THEN [r EXCEPT !.JAN_COL = value]
    ELSE r

\* Mutant: the image-age rule with its upper bucket starting at 10 days.
ClassificarIdadeImgFromTen(r) ==
    IdadeImgRule(IdadeImgRule(IdadeImgRule(r, LAMBDA a : a >= 10, INICIO),
                              LAMBDA a : a \in {8, 9}, MEDIA),
                 LAMBDA a : a <= 7, TARDIA)

\* __classificar_idade_img on one row
ClassificarIdadeImg(r) ==
    IdadeImgRule(IdadeImgRule(IdadeImgRule(r, LAMBDA a : a > 10, INICIO),
                              LAMBDA a : a \in {8, 9, 10}, MEDIA),
                 LAMBDA a : a <= 7, TARDIA)

\* IntersectNdvi.__create_dt_ult_corte_column (inside __format_columns)
create_dt_ult_corte_column ==
    /\ jpc = "format"
    /\ ndvi_geodataframe' =
          MapRows(ndvi_geodataframe,
                  LAMBDA r : [r EXCEPT !.DT_ULT_COR = FormatDate(r.DT_ULT_COR)])
    /\ jpc' = "janela"
    /\ UNCHANGED <<j_input, has_jan_col>>
    /\ UNCHANGED notJanela

\* Mutant: the existing JAN_COL column is classified over all the same.
keep_jan_col_reclassified ==
    /\ jpc = "janela"
    /\ has_jan_col
    /\ ndvi_geodataframe' =
          MapRows(ndvi_geodataframe,
                  LAMBDA r : ClassificarIdadeImg(ClassificarMesCorte(
                                 ClassificarCanaBis(ClassificarEstagio(r)))))
    /\ jpc' = "gridcode"
    /\ UNCHANGED <<j_input, has_jan_col>>
    /\ UNCHANGED notJanela

\* classify_janela_colheita: 'JAN_COL' is among the columns, it is kept.
keep_jan_col ==
    /\ jpc = "janela"
    /\ has_jan_col
    /\ jpc' = "gridcode"
    /\ UNCHANGED <<j_input, ndvi_geodataframe, has_jan_col>>
    /\ UNCHANGED notJanela

classificar_estagio ==
    /\ jpc = "janela"
    /\ ~has_jan_col
    /\ ndvi_geodataframe' = MapRows(ndvi_geodataframe, ClassificarEstagio)
    /\ jpc' = "cana_bis"
    /\ UNCHANGED <<j_input, has_jan_col>>
    /\ UNCHANGED notJanela

classificar_cana_bis ==
    /\ jpc = "cana_bis"
    /\ ndvi_geodataframe' = MapRows(ndvi_geodataframe, ClassificarCanaBis)
    /\ jpc' = "mes_corte"
    /\ UNCHANGED <<j_input, has_jan_col>>
    /\ UNCHANGED notJanela

classificar_mes_corte ==
    /\ jpc = "mes_corte"
    /\ ndvi_geodataframe' = MapRows(ndvi_geodataframe, ClassificarMesCorte)
    /\ jpc' = "idade_img"
    /\ UNCHANGED <<j_input, has_jan_col>>
    /\ UNCHANGED notJanela

classificar_idade_img ==
    /\ jpc = "idade_img"
    /\ ndvi_geodataframe' = MapRows(ndvi_geodataframe, ClassificarIdadeImg)
    /\ jpc' = "gridcode"
    /\ UNCHANGED <<j_input, has_jan_col>>
    /\ UNCHANGED notJanela

\* __format_gridcode (GRIDCODE is a whole number already) and the
\* reprojection: classify_janela_colheita returns.
format_gridcode ==
    /\ jpc = "gridcode"
    /\ jpc' = "classified"
    /\ UNCHANGED <<j_input, ndvi_geodataframe, has_jan_col>>
    /\ UNCHANGED notJanela

\* ndvi_data: the classified rows are handed to NdviDataValidation.
ndvi_data_validation ==
    /\ jpc = "classified"
    /\ jpc' = "validation"
    /\ ndvi_data' =
          MapRows(ndvi_geodataframe,
                  LAMBDA r : [ESTAGIO_D |-> r.ESTAGIO_D, TP_PROP |-> r.TP_PROP,
                              GRIDCODE |-> r.GRIDCODE])
    /\ v_input' = ndvi_data'
    /\ vpc' = "estagios"
    /\ UNCHANGED v_error
    /\ UNCHANGED <<j_input, ndvi_geodataframe, has_jan_col>>
    /\ UNCHANGED <<loaderVars, estVars, aggVars, geoVars, reprojVars, dissVars,
                   conVars, imgVars, moreVars>>

JanelaInit ==
    /\ has_jan_col \in BOOLEAN
    /\ j_input \in UNION {[1..n -> IF has_jan_col THEN RowsWithJanCol
                                   ELSE RowsWithoutJanCol] : n \in 1..MaxJanRows}
    /\ ndvi_geodataframe = j_input
    /\ jpc = "format"

InitJanela ==
    JanelaInit /\ PipelineIdle /\ ReprojectIdle /\ DissolveIdle /\ ContratosIdle
    /\ DateImageIdle

NextJanela ==
    \/ create_dt_ult_corte_column
    \/ keep_jan_col
    \/ classificar_estagio
    \/ classificar_cana_bis
    \/ classificar_mes_corte
    \/ classificar_idade_img
    \/ format_gridcode
    \/ ndvi_data_validation
    \/ estagios_validation
    \/ gridcode_validation
    \/ contratos_validation

SpecJanela == InitJanela /\ [][NextJanela]_vars

\* ndvi_data() returned the collection: the validation raised nothing.
NdviDataReturned == jpc = "validation" /\ vpc = "validated"

\* C13: every row of a collection that ndvi_data() returns without error has
\* its JAN_COL in {INICIO, MEDIA, TARDIA}, whether it was generated by the
\* rules or already present upstream.
C13_ReturnedJanColIsClassified ==
    NdviDataReturned =>
        \A i \in DOMAIN ndvi_geodataframe :
            ndvi_geodataframe[i].JAN_COL \in JanelaValues


\* classify_janela_colheita returned.
JanelaClassified == jpc \in {"classified", "validation"}

\* C16: when the input already has a JAN_COL column the classification is
\* skipped: every row leaves classify_janela_colheita with the JAN_COL it
\* came with, no MES_CORTE is derived and no other attribute changes.
C16_ExistingJanColIsKept ==
    (has_jan_col /\ JanelaClassified) =>
        /\ Len(ndvi_geodataframe) = Len(j_input)
        /\ \A i \in DOMAIN j_input :
              /\ ndvi_geodataframe[i].JAN_COL = j_input[i].JAN_COL
              /\ ndvi_geodataframe[i].MES_CORTE = -1
              /\ ndvi_geodataframe[i] =
                    [j_input[i] EXCEPT !.DT_ULT_COR = FormatDate(j_input[i].DT_ULT_COR)]

\* A row of stage 12M and descriptor BIS that came with an empty JAN_COL left
\* the classification with its JAN_COL still empty.
C16_Witness ==
    /\ has_jan_col
    /\ jpc = "classified"
    /\ \E i \in DOMAIN j_input :
          /\ j_input[i].ESTAGIO = "12M"
          /\ j_input[i].DESC_CANA = "BIS"
          /\ j_input[i].JAN_COL = <<>>
          /\ ndvi_geodataframe[i].JAN_COL = <<>>

\* C17: when JAN_COL is generated, a row whose DESC_CANA is BIS or BISADA
\* ends with INICIO whatever its ESTAGIO; any other row whose ESTAGIO is 12M,
\* 15M, 18M or 2VER ends with TARDIA, MEDIA, INICIO, INICIO; steps (c) and
\* (d) change no row assigned by (a) or (b).
C17_StageAndBisResolve ==
    (~has_jan_col /\ JanelaClassified) =>
        \A i \in DOMAIN j_input :
            LET r == j_input[i]
                out == ndvi_geodataframe[i].JAN_COL
            IN  /\ r.DESC_CANA \in {"BIS", "BISADA"} => out = INICIO
                /\ (r.DESC_CANA \notin {"BIS", "BISADA"} /\ r.ESTAGIO = "12M")
                      => out = TARDIA
                /\ (r.DESC_CANA \notin {"BIS", "BISADA"} /\ r.ESTAGIO = "15M")
                      => out = MEDIA
                /\ (r.DESC_CANA \notin {"BIS", "BISADA"} /\ r.ESTAGIO \in {"18M", "2VER"})
                      => out = INICIO

\* A BIS row of stage 12M cut in October ended with INICIO, next to a row of
\* stage 15M, imaged 11 days ago, that ended with MEDIA.
C17_Witness ==
    /\ ~has_jan_col
    /\ jpc = "classified"
    /\ Len(j_input) = 2
    /\ j_input[1].ESTAGIO = "12M"
    /\ j_input[1].DESC_CANA = "BIS"
    /\ j_input[1].DT_ULT_COR = <<2024, 10, 15>>
    /\ ndvi_geodataframe[1].JAN_COL = INICIO
    /\ j_input[2].ESTAGIO = "15M"
    /\ j_input[2].DESC_CANA = "SOCA"
    /\ j_input[2].IDADE_IMG = 11
    /\ ndvi_geodataframe[2].JAN_COL = MEDIA

\* Steps (a) and (b) classified the row.
AssignedByStageOrBis(r) ==
    r.DESC_CANA \in {"BIS", "BISADA"} \/ r.ESTAGIO \in {"12M", "15M", "18M", "2VER"}

\* C18: the cut month is the month of the row's last-cut date, and 0 when
\* the row is already classified or when its last-cut date is absent (null
\* or empty in the source); so a still-unclassified row with an absent
\* last-cut date is bucketed by image age, not by month.
C18_AbsentDateHasMonthZero ==
    (~has_jan_col /\ JanelaClassified) =>
        \A i \in DOMAIN j_input :
            LET r == j_input[i]
                out == ndvi_geodataframe[i]
            IN  /\ AssignedByStageOrBis(r) => out.MES_CORTE = 0
                /\ (~AssignedByStageOrBis(r) /\ Len(r.DT_ULT_COR) = 3)
                      => out.MES_CORTE = r.DT_ULT_COR[2]
                /\ (~AssignedByStageOrBis(r) /\ r.DT_ULT_COR \in {NULL, <<>>})
                      => /\ out.MES_CORTE = 0
                         /\ out.JAN_COL = IF r.IDADE_IMG > 10 THEN INICIO
                                          ELSE IF r.IDADE_IMG >= 8 THEN MEDIA
                                          ELSE TARDIA

\* C19: step (d) changes only the rows whose JAN_COL is still empty and whose
\* cut month is 0: INICIO when the image is more than 10 days old, MEDIA when
\* 8, 9 or 10, TARDIA when 7 or less; every other row is left as it was.
C19_ImageAgeStep ==
    [][classificar_idade_img =>
          /\ Len(ndvi_geodataframe') = Len(ndvi_geodataframe)
          /\ \A i \in DOMAIN ndvi_geodataframe :
                LET r == ndvi_geodataframe[i]
                    out == ndvi_geodataframe'[i]
                IN  IF (r.JAN_COL = <<>> \/ r.JAN_COL = NULL) /\ r.MES_CORTE = 0
                    THEN out = [r EXCEPT !.JAN_COL =
                                   IF r.IDADE_IMG > 10 THEN INICIO
                                   ELSE IF r.IDADE_IMG \in {8, 9, 10} THEN MEDIA
                                   ELSE TARDIA]
                    ELSE out = r]_vars

\* After step (d): a row without a readable last-cut date, imaged 10 days
\* ago, holds MEDIA, next to a row cut in July that kept the MEDIA of step (c).
C19_Witness ==
    /\ ~has_jan_col
    /\ jpc = "gridcode"
    /\ Len(j_input) = 2
    /\ j_input[1].ESTAGIO = "3C"
    /\ j_input[1].DESC_CANA = "SOCA"
    /\ j_input[1].DT_ULT_COR = <<"abc">>
    /\ j_input[1].IDADE_IMG = 10
    /\ ndvi_geodataframe[1].MES_CORTE = 0
    /\ ndvi_geodataframe[1].JAN_COL = MEDIA
    /\ j_input[2].DT_ULT_COR = <<2024, 7, 15>>
    /\ j_input[2].IDADE_IMG = 11
    /\ ndvi_geodataframe[2].MES_CORTE = 7
    /\ ndvi_geodataframe[2].JAN_COL = MEDIA

(***************************************************************************)
(* ImproveContratos                                                        *)
(*                                                                         *)
(* A TP_PROP text is the sequence of its first character and of the rest:  *)
(* <<"P", "ARCEIRO">> is 'PARCEIRO', <<>> the empty text, NULL the missing *)
(* one.                                                                    *)
(***************************************************************************)
MaxConRows == 3     \* rows of a collection of contracts

PROPRIAS == <<"P", "ROPRIAS">>
FORNECEDORES == <<"F", "ORNECEDORES">>
ADEF == <<"A", "DEF">>

proprias_values ==
    {<<"1", "-SETOR A PROPRIA">>, <<"P", "roprio">>, <<"A", "GRICOLA CASE">>,
     <<"2", "-PARCERIA">>, <<"P", "ROPRIA">>, <<"S", "UBPARCERIA">>,
     <<"A", "RRENDAMENTO">>, <<"C", "OMPRA DE CANA">>, <<"A", "RRE">>}

fornecedores_values ==
    {<<"F", "ornecedores">>, <<"3", "-FORNECEDOR">>, <<"6", "-FRANQUIA">>,
     <<"F", "ORNEC.C">>, <<"F", "ORNEC.S">>, <<"S", "POT">>}

\* TP_PROP values found in shapefiles.
RawContratos ==
    {<<"P", "ARCEIRO">>, <<"2", "-PARCERIA">>, <<"F", "ORNEC.C">>, <<"S", "POT">>,
     <<"X", "YZ">>, PROPRIAS, FORNECEDORES, <<>>, NULL}

\* Series.str[0].astype(str) == ch (false for a null and for '').
FirstCharIs(v, ch) == v # NULL /\ Len(v) > 0 /\ v[1] = ch

\* The four assignments of format_contratos on one value: first letter 'P',
\* the list of own contracts, first letter 'F', the list of suppliers.
ClassifyContrato(v) ==
    LET p == IF FirstCharIs(v, "P") THEN PROPRIAS ELSE v
        pl == IF p \in proprias_values THEN PROPRIAS ELSE p
        f == IF FirstCharIs(pl, "F") THEN FORNECEDORES ELSE pl
    IN  IF f \in fornecedores_values THEN FORNECEDORES ELSE f

RECURSIVE Distinct(_)
Distinct(column) ==
    IF column = <<>> THEN <<>>
    ELSE LET rest == Distinct(SubSeq(column, 1, Len(column) - 1))
             last == column[Len(column)]
         IN  IF \E i \in DOMAIN rest : rest[i] = last THEN rest ELSE Append(rest, last)

\* __get_empty_rows_value: dropna() leaves the empty text among the options.
get_empty_rows_value(column) ==
    LET options_contracts == Distinct(SelectSeq(column, LAMBDA v : v # NULL))
    IN  IF Len(options_contracts) = 1 THEN options_contracts[1] ELSE ADEF

\* format_contratos, the classification by first letter and by list.
classify_contratos ==
    /\ cpc = "new"
    /\ TP_PROP' = [i \in DOMAIN TP_PROP |-> ClassifyContrato(TP_PROP[i])]
    /\ cpc' = "classified"
    /\ UNCHANGED c_input
    /\ UNCHANGED notContratos

\* format_contratos, the empty and missing values are filled.
fill_empty_rows ==
    /\ cpc = "classified"
    /\ TP_PROP' = [i \in DOMAIN TP_PROP |->
                      IF TP_PROP[i] = <<>> \/ TP_PROP[i] = NULL
                      THEN get_empty_rows_value(TP_PROP)
                      ELSE TP_PROP[i]]
    /\ cpc' = "formatted"
    /\ UNCHANGED c_input
    /\ UNCHANGED notContratos

ContratosInit ==
    /\ c_input \in UNION {[1..n -> RawContratos] : n \in 1..MaxConRows}
    /\ TP_PROP = c_input
    /\ cpc = "new"

InitContratos ==
    ContratosInit /\ PipelineIdle /\ ReprojectIdle /\ DissolveIdle /\ JanelaIdle
    /\ DateImageIdle

NextContratos ==
    \/ classify_contratos
    \/ fill_empty_rows

SpecContratos == InitContratos /\ [][NextContratos]_vars

\* C15: after contract classification every row whose TP_PROP was '' or null
\* holds the single distinct non-empty TP_PROP value of the collection when
\* there is exactly one, and ADEF otherwise; so empties next to one real
\* category take that category, and empties alone take ADEF.
C15_EmptyContratosAreFilled ==
    cpc = "formatted" =>
        LET non_empty == {ClassifyContrato(c_input[j]) : j \in DOMAIN c_input}
                             \ {<<>>, NULL}
        IN  \A i \in DOMAIN c_input :
                c_input[i] \in {<<>>, NULL} =>
                    IF Cardinality(non_empty) = 1
                    THEN TP_PROP[i] \in non_empty
                    ELSE TP_PROP[i] = ADEF

(***************************************************************************)
(* IntersectNdvi.ndvi_data and __classify_date_image: the image date of    *)
(* the whole collection.  i_input is the collection as read, i_data the    *)
(* collection being worked on, ipc the steps of ndvi_data done so far.     *)
(***************************************************************************)
MaxImgRows == 3

\* DATA_IMG as read: two dates, an empty text, a text that is no date.
ImageDates == {<<2024, 1, 15>>, <<2024, 2, 15>>, <<>>, <<"abc">>}

ImageAreas == {1, 2, 3}

DateImageInputs ==
    UNION {[1..n -> [DATA_IMG : ImageDates, AREA_NDVI : ImageAreas]] :
               n \in 0..MaxImgRows}

\* The order of the formatted '%Y-%m-%d' texts, which groupby sorts by.
DateKey(d) == d[1] * 10000 + d[2] * 100 + d[3]

\* The groups of groupby('DATA_IMG'): a row without a date is in no group.
GroupDates(rows) == {rows[i].DATA_IMG : i \in DOMAIN rows} \ {NULL}

RECURSIVE SumAreaNdvi(_, _, _)
\* ['AREA_NDVI'].sum() of the group of date d, over the first n rows.
SumAreaNdvi(rows, d, n) ==
    IF n = 0 THEN 0
    ELSE SumAreaNdvi(rows, d, n - 1)
           + (IF rows[n].DATA_IMG = d THEN rows[n].AREA_NDVI ELSE 0)

\* Mutant: the first group in sorted order, whatever its sum.
idxfirst(rows) ==
    CHOOSE d \in GroupDates(rows) :
        \A e \in GroupDates(rows) : DateKey(d) <= DateKey(e)

\* grouped.idxmax(): the first group, in sorted order, of the largest sum.
idxmax(rows) ==
    CHOOSE d \in GroupDates(rows) :
        \A e \in GroupDates(rows) :
            LET sd == SumAreaNdvi(rows, d, Len(rows))
                se == SumAreaNdvi(rows, e, Len(rows))
            IN  sd > se \/ (sd = se /\ DateKey(d) <= DateKey(e))

LastStep == IF ipc = <<>> THEN "" ELSE ipc[Len(ipc)]

\* __format_columns: DATA_IMG is formatted as a date.
create_dt_imagem_column ==
    /\ ipc = <<>>
    /\ i_data' = [i \in DOMAIN i_data |->
                     [i_data[i] EXCEPT !.DATA_IMG = FormatDate(@)]]
    /\ ipc' = Append(ipc, "format_columns")
    /\ UNCHANGED i_input
    /\ UNCHANGED notDateImage

\* ImproveContratos, ImproveEstagios, JanelaDeColheita: the per-row
\* classification reads and writes neither DATA_IMG nor AREA_NDVI.
classify_rows ==
    /\ LastStep = "format_columns"
    /\ ipc' = Append(ipc, "classify")
    /\ UNCHANGED <<i_input, i_data>>
    /\ UNCHANGED notDateImage

\* __classify_date_image
classify_date_image ==
    /\ LastStep = "classify"
    /\ GroupDates(i_data) # {}
    /\ i_data' = [i \in DOMAIN i_data |->
                     [i_data[i] EXCEPT !.DATA_IMG = idxmax(i_data)]]
    /\ ipc' = Append(ipc, "classify_date_image")
    /\ UNCHANGED i_input
    /\ UNCHANGED notDateImage

\* __classify_date_image: idxmax of an empty series raises.
classify_date_image_raises ==
    /\ LastStep = "classify"
    /\ GroupDates(i_data) = {}
    /\ ipc' = Append(ipc, "raised")
    /\ UNCHANGED <<i_input, i_data>>
    /\ UNCHANGED notDateImage

\* NdviDataValidation(ndvi_data_classified)
validate_rows ==
    /\ LastStep = "classify_date_image"
    /\ ipc' = Append(ipc, "validation")
    /\ UNCHANGED <<i_input, i_data>>
    /\ UNCHANGED notDateImage

DateImageInit ==
    /\ i_input \in DateImageInputs
    /\ i_data = i_input
    /\ ipc = <<>>

InitDateImage ==
    /\ DateImageInit
    /\ PipelineIdle
    /\ ReprojectIdle /\ DissolveIdle /\ JanelaIdle /\ ContratosIdle

NextDateImage ==
    \/ create_dt_imagem_column
    \/ classify_rows
    \/ classify_date_image
    \/ classify_date_image_raises
    \/ validate_rows

SpecDateImage == InitDateImage /\ [][NextDateImage]_vars

\* The collection as it entered __classify_date_image.
BeforeDateImage ==
    [i \in DOMAIN i_input |->
        [i_input[i] EXCEPT !.DATA_IMG = FormatDate(@)]]

\* C20: once the image date is resolved every row has the same DATA_IMG, a
\* date whose summed AREA_NDVI over the rows that carried it is the largest
\* among the dates of the collection; the step comes right after the per-row
\* classification and before the validation.
C20_OneDateOfLargestArea ==
    (\E k \in DOMAIN ipc : ipc[k] = "classify_date_image") =>
        /\ \E d \in GroupDates(BeforeDateImage) :
              /\ \A i \in DOMAIN i_data : i_data[i].DATA_IMG = d
              /\ \A e \in GroupDates(BeforeDateImage) :
                    SumAreaNdvi(BeforeDateImage, d, Len(i_input))
                       >= SumAreaNdvi(BeforeDateImage, e, Len(i_input))
        /\ Len(i_data) = Len(i_input)
        /\ \A i \in DOMAIN i_data : i_data[i].AREA_NDVI = i_input[i].AREA_NDVI
        /\ \E k \in DOMAIN ipc :
              /\ ipc[k] = "classify_date_image"
              /\ k > 1
              /\ ipc[k - 1] = "classify"
              /\ \A j \in 1..k : ipc[j] # "validation"

\* January has the row of largest area, February the largest sum: the
\* validated collection carries February on every row.
C20_Witness ==
    /\ LastStep = "validation"
    /\ Len(i_input) = 3
    /\ i_input[1] = [DATA_IMG |-> <<2024, 1, 15>>, AREA_NDVI |-> 3]
    /\ i_input[2] = [DATA_IMG |-> <<2024, 2, 15>>, AREA_NDVI |-> 2]
    /\ i_input[3] = [DATA_IMG |-> <<2024, 2, 15>>, AREA_NDVI |-> 2]
    /\ \A i \in 1..3 : i_data[i].DATA_IMG = <<2024, 2, 15>>

(***************************************************************************)
(* IntersectNdvi.__format_columns: the columns the classification needs.   *)
(* A column is known by [of, as]: the column of the shapefile its values   *)
(* come from, and what was done to them ("raw", "stripped", "date").       *)
(***************************************************************************)
k_safra == 2025

\* str(self.safra)[-2:]
LastTwo(n) == IF n % 100 < 10 THEN "0" \o ToString(n % 100) ELSE ToString(n % 100)

\* f'ESTAGIO_{str(self.safra)[-2:]}'
estagio_ano_column == "ESTAGIO_" \o LastTwo(k_safra)

\* f'CORTE_{str(last_year)}', last_year = int(str(self.safra)[-2:]) - 1
corte_ano_column == "CORTE_" \o ToString((k_safra % 100) - 1)

list_name_columns == <<"DT_IMAGEM", "DT_IMG">>
columns_dt_ult_corte == <<"ULT_CORTE", corte_ano_column>>
columns_list == <<"DESC_CANA", "GRIDCODE", "IDADE_IMG", "DATA_IMG">>

\* The columns a shapefile may or may not have, and those it always has.
OptionalColumns ==
    {"ESTAGIO", estagio_ano_column, "DATA_IMG", "DT_IMAGEM", "dt_img",
     "DT_ULT_COR", "ULT_CORTE", corte_ano_column, "DESC_CANA"}
AlwaysColumns == {"GRIDCODE", "IDADE_IMG", "GEOMETRY"}

\* column.upper()
Upper(n) == IF n = "dt_img" THEN "DT_IMG" ELSE n

\* self.intersect_ndvi[name] = value
SetColumn(columns, name, value) ==
    [n \in DOMAIN columns \cup {name} |-> IF n = name THEN value ELSE columns[n]]

\* Mutant: the aliases that are columns, the last of the list first.
PresentLastFirst(aliases, columns) ==
    LET present == SelectSeq(aliases, LAMBDA a : a \in DOMAIN columns)
    IN  [i \in DOMAIN present |-> present[Len(present) + 1 - i]]

\* [c for c in aliases if c in self.intersect_ndvi.columns]
Present(aliases, columns) == SelectSeq(aliases, LAMBDA a : a \in DOMAIN columns)

KLast == IF kpc = <<>> THEN "" ELSE kpc[Len(kpc)]

\* The column names are put in upper case.
upper_columns ==
    /\ kpc = <<>>
    /\ k_columns' = [N \in {Upper(n) : n \in DOMAIN k_columns} |->
                        k_columns[CHOOSE n \in DOMAIN k_columns : Upper(n) = N]]
    /\ kpc' = Append(kpc, "upper")
    /\ UNCHANGED <<k_input, k_error>>
    /\ UNCHANGED notColumns

\* The columns after the ESTAGIO_<yy> column, if any, was copied to ESTAGIO.
WithEstagioAno ==
    IF estagio_ano_column \in DOMAIN k_columns
    THEN SetColumn(k_columns, "ESTAGIO", k_columns[estagio_ano_column])
    ELSE k_columns

\* __create_estagio_column
estagio_column ==
    /\ KLast = "upper"
    /\ "ESTAGIO" \in DOMAIN WithEstagioAno
    /\ k_columns' = SetColumn(WithEstagioAno, "ESTAGIO",
                              [WithEstagioAno["ESTAGIO"] EXCEPT !.as = "stripped"])
    /\ kpc' = Append(kpc, "estagio")
    /\ UNCHANGED <<k_input, k_error>>
    /\ UNCHANGED notColumns

estagio_column_raises ==
    /\ KLast = "upper"
    /\ "ESTAGIO" \notin DOMAIN WithEstagioAno
    /\ kpc' = Append(kpc, "raised")
    /\ k_error' = "INTERSECT_NDVI nao possui coluna de ESTAGIO"
    /\ UNCHANGED <<k_input, k_columns>>
    /\ UNCHANGED notColumns

\* A date column is taken from its first alias when it is missing, and
\* formatted by __format_date_column.
DateColumn(columns, name, aliases) ==
    LET source == IF name \in DOMAIN columns THEN name
                  ELSE Present(aliases, columns)[1]
    IN  SetColumn(columns, name, [columns[source] EXCEPT !.as = "date"])

HasDateColumn(columns, name, aliases) ==
    name \in DOMAIN columns \/ Present(aliases, columns) # <<>>

\* __create_dt_imagem_column
dt_imagem_column ==
    /\ KLast = "estagio"
    /\ HasDateColumn(k_columns, "DATA_IMG", list_name_columns)
    /\ k_columns' = DateColumn(k_columns, "DATA_IMG", list_name_columns)
    /\ kpc' = Append(kpc, "dt_imagem")
    /\ UNCHANGED <<k_input, k_error>>
    /\ UNCHANGED notColumns

dt_imagem_column_raises ==
    /\ KLast = "estagio"
    /\ ~HasDateColumn(k_columns, "DATA_IMG", list_name_columns)
    /\ kpc' = Append(kpc, "raised")
    /\ k_error' = "INTERSECT_NDVI nao possui coluna de DATA_IMG"
    /\ UNCHANGED <<k_input, k_columns>>
    /\ UNCHANGED notColumns

\* __create_dt_ult_corte_column
dt_ult_corte_column ==
    /\ KLast = "dt_imagem"
    /\ HasDateColumn(k_columns, "DT_ULT_COR", columns_dt_ult_corte)
    /\ k_columns' = DateColumn(k_columns, "DT_ULT_COR", columns_dt_ult_corte)
    /\ kpc' = Append(kpc, "dt_ult_corte")
    /\ UNCHANGED <<k_input, k_error>>
    /\ UNCHANGED notColumns

dt_ult_corte_column_raises ==
    /\ KLast = "dt_imagem"
    /\ ~HasDateColumn(k_columns, "DT_ULT_COR", columns_dt_ult_corte)
    /\ kpc' = Append(kpc, "raised")
    /\ k_error' = "INTERSECT_NDVI nao possui coluna de DT_ULT_COR"
    /\ UNCHANGED <<k_input, k_columns>>
    /\ UNCHANGED notColumns

\* __check_columns
check_columns ==
    /\ KLast = "dt_ult_corte"
    /\ \A i \in DOMAIN columns_list : columns_list[i] \in DOMAIN k_columns
    /\ kpc' = Append(kpc, "format_columns")
    /\ UNCHANGED <<k_input, k_columns, k_error>>
    /\ UNCHANGED notColumns

check_columns_raises ==
    /\ KLast = "dt_ult_corte"
    /\ \E i \in DOMAIN columns_list :
          /\ columns_list[i] \notin DOMAIN k_columns
          /\ \A j \in 1..(i - 1) : columns_list[j] \in DOMAIN k_columns
          /\ k_error' = "Coluna " \o columns_list[i] \o " nao esta no shapefile!"
    /\ kpc' = Append(kpc, "raised")
    /\ UNCHANGED <<k_input, k_columns>>
    /\ UNCHANGED notColumns

\* ndvi_data: ImproveContratos(...).format_contratos() applies the first
\* classification rule.
classification_begins ==
    /\ KLast = "format_columns"
    /\ kpc' = Append(kpc, "classify")
    /\ UNCHANGED <<k_input, k_columns, k_error>>
    /\ UNCHANGED notColumns

ColumnsInit ==
    /\ k_input \in SUBSET OptionalColumns
    /\ k_columns = [n \in k_input \cup AlwaysColumns |-> [of |-> n, as |-> "raw"]]
    /\ kpc = <<>>
    /\ k_error = ""

InitColumns == ColumnsInit /\ CoreIdle /\ OperationsIdle /\ UploadIdle

NextColumns ==
    \/ upper_columns
    \/ estagio_column
    \/ estagio_column_raises
    \/ dt_imagem_column
    \/ dt_imagem_column_raises
    \/ dt_ult_corte_column
    \/ dt_ult_corte_column_raises
    \/ check_columns
    \/ check_columns_raises
    \/ classification_begins

SpecColumns == InitColumns /\ [][NextColumns]_vars

\* The column names of the shapefile, in upper case.
InputNames == {Upper(n) : n \in k_input \cup AlwaysColumns}

KDone(step) == \E i \in DOMAIN kpc : kpc[i] = step

\* The derived fields: the step that creates each, and its aliases in order.
DerivedFields ==
    { [name |-> "ESTAGIO", step |-> "estagio", aliases |-> <<estagio_ano_column>>],
      [name |-> "DATA_IMG", step |-> "dt_imagem", aliases |-> list_name_columns],
      [name |-> "DT_ULT_COR", step |-> "dt_ult_corte",
       aliases |-> columns_dt_ult_corte] }

\* C21: a derived field (ESTAGIO, DATA_IMG, DT_ULT_COR) whose canonical
\* column is absent takes its values from the first alias present, in the
\* order of the alias list; when neither the canonical column nor an alias
\* exists the pipeline ends with a missing-column error and no
\* classification rule is applied.
C21_ColumnResolution ==
    \A f \in DerivedFields :
        LET firsts == {i \in DOMAIN f.aliases :
                          /\ f.aliases[i] \in InputNames
                          /\ \A j \in 1..(i - 1) : f.aliases[j] \notin InputNames}
        IN  /\ (f.name \notin InputNames /\ firsts # {} /\ KDone(f.step))
                  => /\ f.name \in DOMAIN k_columns
                     /\ \A i \in firsts : Upper(k_columns[f.name].of) = f.aliases[i]
            /\ (f.name \notin InputNames /\ firsts = {})
                  => /\ ~KDone("classify")
                     /\ ~KDone(f.step)
                     /\ (~ENABLED NextColumns) =>
                            /\ KLast = "raised"
                            /\ k_error \in
                                 {"INTERSECT_NDVI nao possui coluna de ESTAGIO",
                                  "INTERSECT_NDVI nao possui coluna de DATA_IMG",
                                  "INTERSECT_NDVI nao possui coluna de DT_ULT_COR"}

\* The classification began on a shapefile with both image-date aliases and
\* only the second last-cut alias: DATA_IMG holds DT_IMAGEM, DT_ULT_COR holds
\* CORTE_24.
C21_Witness ==
    /\ KLast = "classify"
    /\ k_input = {"ESTAGIO", "DT_IMAGEM", "dt_img", "CORTE_24", "DESC_CANA"}
    /\ k_columns["DATA_IMG"] = [of |-> "DT_IMAGEM", as |-> "date"]
    /\ k_columns["DT_ULT_COR"] = [of |-> "CORTE_24", as |-> "date"]

(***************************************************************************)
(* The geometry operations of gisFunctions: Intersect, Area, Dissolve,     *)
(* Buffer, SymmetricDifference and ReprojectGeometries with its default    *)
(* target.  A collection is [crs, coords, features, geometry, area]: the   *)
(* first three as in ReprojectGeometries above, geometry tells what was    *)
(* done to the geometries ("raw", "buffered", "valid") and area whether    *)
(* it has the area column.  o_caller is the object the caller passed and   *)
(* still holds, o_frame the object the operation returns.                  *)
(***************************************************************************)
MaxOpRows == 2      \* features of a collection handed to an operation

AreaOperations == {"calculate_area", "dissolve_area", "symmetric_difference_area"}

RepairOperations == AreaOperations \cup {"intersection"}

Operations ==
    RepairOperations
      \cup {"dissolve", "buffer_area", "symmetric_difference", "reproject"}

OperationInputs ==
    {f \in [crs : {"4326", "31982", "none"}, coords : {"4326", "31982"},
            features : UNION {[1..n -> Centroids] : n \in 1..MaxOpRows},
            geometry : {"raw"}, area : {FALSE}] : WellTagged(f)}

\* ReprojectGeometries(geodataframe).reproject() with the default target:
\* to_crs builds a new collection; where it raises the tag of the collection
\* itself is set.  in_place tells which of the two happened.
ReprojectDefault(frame) ==
    (IF CanTransform(frame)
     THEN {[result |-> ToCrs(frame, "4326"), in_place |-> FALSE]}
     ELSE {})
      \cup {[result |-> Relabel(frame, "4326"), in_place |-> TRUE]}

\* MakeValidGeometries(geodataframe).improve_geometry(): a new collection is
\* selected from the input, repaired, and reprojected to EPSG:4326.
ImproveGeometry(frame) ==
    {out.result : out \in ReprojectDefault([frame EXCEPT !.geometry = "valid"])}

\* Area(geodataframe, column_name).calculate_area() on latitudes and
\* longitudes: local UTM, the area column, then the repair.
CalculateArea(frame) ==
    ImproveGeometry([UtmLoop(frame, frame.features) EXCEPT !.area = TRUE])

\* What Area.__init__ leaves in the collection it was handed: the tag set in
\* place at the first southern row of a collection without coordinate system.
AreaLeaves(frame) ==
    IF CanTransform(frame) \/ \A i \in DOMAIN frame.features : ~frame.features[i].south
    THEN frame
    ELSE LET first == CHOOSE i \in DOMAIN frame.features :
                          /\ frame.features[i].south
                          /\ \A j \in 1..(i - 1) : ~frame.features[j].south
         IN  Relabel(frame, ZoneEpsg(frame.features[first].zone))

\* GeoDataFrame.dissolve(): one feature, whose centroid is somewhere among
\* the features it was made of.
Dissolved(frame) ==
    {[frame EXCEPT !.features = <<frame.features[i]>>] : i \in DOMAIN frame.features}

\* Intersect(...).intersection(): both inputs are repaired, overlaid, and the
\* overlay is repaired.
intersection ==
    /\ opc = "new"
    /\ o_op = "intersection"
    /\ \E repaired \in ImproveGeometry(o_frame) :
          o_frame' \in ImproveGeometry(repaired)
    /\ opc' = "returned"
    /\ UNCHANGED <<o_op, o_input, o_caller>>
    /\ UNCHANGED notOperations

\* Area(...).calculate_area()
calculate_area ==
    /\ opc = "new"
    /\ o_op = "calculate_area"
    /\ o_frame.coords = "4326"
    /\ o_frame' \in CalculateArea(o_frame)
    /\ o_caller' = AreaLeaves(o_caller)
    /\ opc' = "returned"
    /\ UNCHANGED <<o_op, o_input>>
    /\ UNCHANGED notOperations

\* Dissolve(...).dissolve_geodataframe(), calc_area False
dissolve_geodataframe ==
    /\ opc = "new"
    /\ o_op = "dissolve"
    /\ \E d \in Dissolved(o_frame) :
          \E out \in ReprojectDefault(d) : o_frame' = out.result
    /\ opc' = "returned"
    /\ UNCHANGED <<o_op, o_input, o_caller>>
    /\ UNCHANGED notOperations

\* Dissolve(...).dissolve_geodataframe(), calc_area True
dissolve_geodataframe_area ==
    /\ opc = "new"
    /\ o_op = "dissolve_area"
    /\ o_frame.coords = "4326"
    /\ \E d \in Dissolved(o_frame) : o_frame' \in CalculateArea(d)
    /\ opc' = "returned"
    /\ UNCHANGED <<o_op, o_input, o_caller>>
    /\ UNCHANGED notOperations

\* Buffer(...).buffer_area(): the geometry column of the collection handed
\* over is assigned, then the collection is reprojected.
buffer_area ==
    /\ opc = "new"
    /\ o_op = "buffer_area"
    /\ \E out \in ReprojectDefault([o_caller EXCEPT !.geometry = "buffered"]) :
          /\ o_frame' = out.result
          /\ o_caller' = IF out.in_place THEN out.result
                         ELSE [o_caller EXCEPT !.geometry = "buffered"]
    /\ opc' = "returned"
    /\ UNCHANGED <<o_op, o_input>>
    /\ UNCHANGED notOperations

\* SymmetricDifference(...).symmetric_difference(), calc_area False: the
\* overlay is returned as gpd.overlay made it.
symmetric_difference ==
    /\ opc = "new"
    /\ o_op = "symmetric_difference"
    /\ o_frame' = o_frame
    /\ opc' = "returned"
    /\ UNCHANGED <<o_op, o_input, o_caller>>
    /\ UNCHANGED notOperations

\* SymmetricDifference(...).symmetric_difference(), calc_area True
symmetric_difference_area ==
    /\ opc = "new"
    /\ o_op = "symmetric_difference_area"
    /\ o_frame.coords = "4326"
    /\ o_frame' \in CalculateArea(o_frame)
    /\ opc' = "returned"
    /\ UNCHANGED <<o_op, o_input, o_caller>>
    /\ UNCHANGED notOperations

\* ReprojectGeometries(geodataframe).reproject()
reproject_default ==
    /\ opc = "new"
    /\ o_op = "reproject"
    /\ \E out \in ReprojectDefault(o_caller) :
          /\ o_frame' = out.result
          /\ o_caller' = IF out.in_place THEN out.result ELSE o_caller
    /\ opc' = "returned"
    /\ UNCHANGED <<o_op, o_input>>
    /\ UNCHANGED notOperations

\* The operation raises: utm.from_latlon in Area.__init__ on coordinates that
\* are no latitudes and longitudes, or the repair of MakeValidGeometries.
operation_raises ==
    /\ opc = "new"
    /\ \/ o_op \in AreaOperations /\ o_frame.coords # "4326"
       \/ o_op \in RepairOperations
    /\ opc' = "raised"
    /\ UNCHANGED <<o_op, o_input, o_caller, o_frame>>
    /\ UNCHANGED notOperations

OperationsInit ==
    /\ o_op \in Operations
    /\ o_input \in OperationInputs
    /\ o_caller = o_input
    /\ o_frame = o_input
    /\ opc = "new"

InitOperations == OperationsInit /\ CoreIdle /\ ColumnsIdle /\ UploadIdle

NextOperations ==
    \/ intersection
    \/ calculate_area
    \/ dissolve_geodataframe
    \/ dissolve_geodataframe_area
    \/ buffer_area
    \/ symmetric_difference
    \/ symmetric_difference_area
    \/ reproject_default
    \/ operation_raises

SpecOperations == InitOperations /\ [][NextOperations]_vars

\* C24: every geometry-producing operation ends with a reprojection: the
\* collection returned by intersection, dissolve (with or without area),
\* calculate_area, buffer_area and symmetric_difference (with or without
\* area) is tagged EPSG:4326 whatever the coordinate system of its input.
C24_ResultIsIn4326 ==
    (opc = "returned" /\ o_op # "reproject") => o_frame.crs = "4326"

\* C25: no transform mutates its input: after buffer_area, calculate_area or
\* reproject returned, the collection object the caller passed has the
\* geometries, columns and coordinate system it had before the call.
C25_InputIsNotMutated ==
    (opc = "returned" /\ o_op \in {"buffer_area", "calculate_area", "reproject"})
        => o_caller = o_input

(***************************************************************************)
(* upload_intersect_ndvi: the raw upload                                   *)
(*                                                                         *)
(* A value of the shapefile is [type, val]: val is the text of a str, one  *)
(* character per element (the year, month and day of a date text are one   *)
(* element each).  One numeric and one date column stand for the lists     *)
(* numeric_cols and date_cols.                                             *)
(***************************************************************************)
MaxUpRows == 2      \* rows of an uploaded shapefile

PyNone == [type |-> "NoneType", val |-> <<>>]
PyFloat(text) == [type |-> "float", val |-> text]
PyStr(text) == [type |-> "str", val |-> text]
PyDate(y, m, d) == [type |-> "date", val |-> <<y, m, d>>]
NaN == PyFloat(<<"n", "a", "n">>)
NaT == [type |-> "NaTType", val |-> <<>>]

numeric_cols == <<"area_ndvi">>
date_cols == <<"data_img">>

\* What read_file can hold in a numeric column.
NumericValues ==
    {PyNone, NaN, PyFloat(<<"1", "2", ".", "5">>),
     PyStr(<<" ", "3", ",", "5", " ">>),
     PyStr(<<"1", ".", "2", "3", "4", ",", "5">>),
     PyStr(<<"1", ",", "2", "3", "4", ".", "5">>),
     PyStr(<<"a", "b", "c">>),
     PyStr(<<"N", "/", "A">>),
     PyStr(<<"1", ".", "2", ".", "3">>)}

\* What read_file can hold in a date column: a text, or, when the field is
\* read as dates, a Timestamp and NaT for a missing date.
DateValues ==
    {PyNone, NaT, [type |-> "Timestamp", val |-> <<"2024", "03", "15">>],
     PyStr(<<"2024", "-", "03", "-", "15">>),
     PyStr(<<"15", "/", "03", "/", "2024">>),
     PyStr(<<" ", "-">>),
     PyStr(<<"abc">>)}

DigitChars == {Digit[d] : d \in 0..9}

\* str.strip()
RECURSIVE Strip(_)
Strip(t) ==
    IF t = <<>> THEN t
    ELSE IF Head(t) = " " THEN Strip(Tail(t))
    ELSE IF t[Len(t)] = " " THEN Strip(SubSeq(t, 1, Len(t) - 1))
    ELSE t

\* str.lower()
Lower(t) ==
    [i \in DOMAIN t |-> CASE t[i] = "N" -> "n" [] t[i] = "A" -> "a" [] OTHER -> t[i]]

\* The texts that stand for no value.
NullTexts ==
    {<<>>, <<"n", "a", "n">>, <<"n", "/", "a">>, <<"n", "u", "l", "l">>,
     <<"n", "o", "n", "e">>, <<"-">>}

\* str.find(ch) + 1: the first position of ch, 0 when it is not in the text.
Find(t, ch) ==
    IF \E i \in DOMAIN t : t[i] = ch
    THEN CHOOSE i \in DOMAIN t : t[i] = ch /\ \A j \in 1..(i - 1) : t[j] # ch
    ELSE 0

\* The separators of thousands are removed and the decimal comma becomes a
\* point.
Separators(t) ==
    LET comma == Find(t, ",")
        point == Find(t, ".")
        CommaToPoint(x) == [i \in DOMAIN x |-> IF x[i] = "," THEN "." ELSE x[i]]
    IN  IF comma > 0 /\ point > 0
        THEN IF point < comma THEN CommaToPoint(StrRemove(t, "."))
             ELSE StrRemove(t, ",")
        ELSE CommaToPoint(t)

\* re.sub(r"[^\d\.\-eE]", "", s)
NumberChars(t) ==
    SelectSeq(t, LAMBDA c : c \in DigitChars \cup {".", "-", "e", "E"})

IsDecimal(t) ==
    /\ \A i \in DOMAIN t : t[i] \in DigitChars \cup {"."}
    /\ \E i \in DOMAIN t : t[i] \in DigitChars
    /\ Cardinality({i \in DOMAIN t : t[i] = "."}) <= 1

Unsigned(t) == IF t # <<>> /\ t[1] = "-" THEN Tail(t) ELSE t

\* float(s) does not raise.
IsFloatText(t) ==
    LET body == Unsigned(t)
        e == IF Find(body, "e") > 0 THEN Find(body, "e") ELSE Find(body, "E")
    IN  IF e = 0 THEN IsDecimal(body)
        ELSE /\ IsDecimal(SubSeq(body, 1, e - 1))
             /\ LET exponent == Unsigned(SubSeq(body, e + 1, Len(body)))
                IN  exponent # <<>> /\ \A i \in DOMAIN exponent : exponent[i] \in DigitChars

parse_number(v) ==
    IF v.type = "NoneType" THEN PyNone
    ELSE IF v.type = "float" THEN v
    ELSE LET t == Strip(v.val)
         IN  IF Lower(t) \in NullTexts THEN PyNone
             ELSE LET cleaned == NumberChars(Separators(t))
                  IN  IF cleaned = <<>> THEN PyNone
                      ELSE IF IsFloatText(cleaned) THEN PyFloat(cleaned)
                      ELSE PyNone

\* The formats strptime is tried with: the separator and the places of the
\* year, the month and the day.
fmts ==
    <<[sep |-> "-", y |-> 1, m |-> 3, d |-> 5], [sep |-> "/", y |-> 5, m |-> 3, d |-> 1],
      [sep |-> "-", y |-> 5, m |-> 3, d |-> 1], [sep |-> "/", y |-> 1, m |-> 3, d |-> 5],
      [sep |-> "/", y |-> 5, m |-> 1, d |-> 3], [sep |-> ".", y |-> 5, m |-> 3, d |-> 1]>>

\* datetime.strptime(s, f) does not raise.
Strptime(t, f) ==
    /\ Len(t) = 5
    /\ t[2] = f.sep /\ t[4] = f.sep
    /\ t[f.y] \in {"2024"}
    /\ t[f.m] \in {"03"}
    /\ t[f.d] \in {"03", "15"}

parse_date(v) ==
    IF v.type = "NoneType" THEN PyNone
    ELSE IF v.type = "Timestamp" THEN PyDate(v.val[1], v.val[2], v.val[3])
    ELSE IF v.type = "NaTType" THEN NaT         \* NaT is a datetime, NaT.date() is NaT
    ELSE LET t == Strip(v.val)
             matching == SelectSeq(fmts, LAMBDA f : Strptime(t, f))
         IN  IF Lower(t) \in NullTexts THEN PyNone
             ELSE IF matching # <<>>
             THEN PyDate(t[matching[1].y], t[matching[1].m], t[matching[1].d])
             ELSE PyNone                         \* pd.to_datetime gives NaT

\* orig is None or (isinstance(orig, float) and pd.isna(orig))
IsSkipped(orig) == orig = PyNone \/ orig = NaN

\* The counts of one column after its values went through parse.
Counted(counts, col, rows, converted, is_none) ==
    [counts EXCEPT ![col] =
        Cardinality({i \in DOMAIN rows :
                        /\ ~IsSkipped(rows[i][col])
                        /\ (converted[i] = PyNone) = is_none})]

\* for col in numeric_cols: parse_number over the column, counted.
convert_numeric_cols ==
    /\ upc = "numeric"
    /\ LET col == numeric_cols[1]
           converted == [i \in DOMAIN gdf |-> parse_number(gdf[i][col])]
       IN  /\ conversion_failures' = Counted(conversion_failures, col, gdf, converted, TRUE)
           /\ conversion_success' = Counted(conversion_success, col, gdf, converted, FALSE)
           /\ gdf' = [i \in DOMAIN gdf |-> [gdf[i] EXCEPT ![col] = converted[i]]]
    /\ upc' = "dates"
    /\ UNCHANGED <<u_input, details>>
    /\ UNCHANGED notUpload

\* for col in date_cols: parse_date over the column, counted.
convert_date_cols ==
    /\ upc = "dates"
    /\ LET col == date_cols[1]
           converted == [i \in DOMAIN gdf |-> parse_date(gdf[i][col])]
       IN  /\ conversion_failures' = Counted(conversion_failures, col, gdf, converted, TRUE)
           /\ conversion_success' = Counted(conversion_success, col, gdf, converted, FALSE)
           /\ gdf' = [i \in DOMAIN gdf |-> [gdf[i] EXCEPT ![col] = converted[i]]]
    /\ upc' = "database"
    /\ UNCHANGED <<u_input, details>>
    /\ UNCHANGED notUpload

\* gdf.where(pd.notnull(gdf), None), then the rows are inserted.
insert_rows ==
    /\ upc = "database"
    /\ gdf' = [i \in DOMAIN gdf |->
                  [c \in DOMAIN gdf[i] |->
                      IF gdf[i][c] \in {NaN, NaT} THEN PyNone ELSE gdf[i][c]]]
    /\ upc' = "inserted"
    /\ UNCHANGED <<u_input, conversion_failures, conversion_success, details>>
    /\ UNCHANGED notUpload

\* The unit has rows already and the user declines to replace them.
upload_cancelled ==
    /\ upc = "database"
    /\ upc' = "cancelled"
    /\ UNCHANGED <<u_input, gdf, conversion_failures, conversion_success, details>>
    /\ UNCHANGED notUpload

\* The connection, the delete or the insert raises: the error is shown.
upload_error ==
    /\ upc = "database"
    /\ upc' = "error"
    /\ UNCHANGED <<u_input, gdf, conversion_failures, conversion_success, details>>
    /\ UNCHANGED notUpload

\* The lines of the columns that had failures, in the order of the lists.
Details(failures) ==
    LET cols == SelectSeq(numeric_cols \o date_cols, LAMBDA c : failures[c] > 0)
    IN  [i \in DOMAIN cols |-> [col |-> cols[i], invalid |-> failures[cols[i]]]]

\* The final message.
show_summary ==
    /\ upc = "inserted"
    /\ details' = Details(conversion_failures)
    /\ upc' = "summary"
    /\ UNCHANGED <<u_input, gdf, conversion_failures, conversion_success>>
    /\ UNCHANGED notUpload

UploadInit ==
    /\ u_input \in UNION {[1..n -> [area_ndvi : NumericValues, data_img : DateValues]] :
                             n \in 0..MaxUpRows}
    /\ gdf = u_input
    /\ conversion_failures = [c \in {"area_ndvi", "data_img"} |-> 0]
    /\ conversion_success = [c \in {"area_ndvi", "data_img"} |-> 0]
    /\ details = <<>>
    /\ upc = "numeric"

InitUpload == UploadInit /\ CoreIdle /\ ColumnsIdle /\ OperationsIdle

NextUpload ==
    \/ convert_numeric_cols
    \/ convert_date_cols
    \/ insert_rows
    \/ upload_cancelled
    \/ upload_error
    \/ show_summary

SpecUpload == InitUpload /\ [][NextUpload]_vars

\* A value that is null as the shapefile gave it: None, NaN or NaT.
IsNullValue(v) == v \in {PyNone, NaN, NaT}

\* C27: in the raw upload a value that cannot be converted is stored as null
\* and counted; for each numeric or date column failures + successes is the
\* number of values of the column that were not null in the shapefile, and
\* the final message lists exactly the columns with failures, with their
\* count.
C27_ConversionCounts ==
    /\ upc \in {"database", "inserted", "summary", "cancelled", "error"} =>
          \A c \in {"area_ndvi", "data_img"} :
              conversion_failures[c] + conversion_success[c] =
                  Cardinality({i \in DOMAIN u_input : ~IsNullValue(u_input[i][c])})
    /\ upc \in {"inserted", "summary"} =>
          \A i \in DOMAIN u_input :
              /\ parse_number(u_input[i].area_ndvi) = PyNone => gdf[i].area_ndvi = PyNone
              /\ parse_date(u_input[i].data_img) = PyNone => gdf[i].data_img = PyNone
    /\ upc = "summary" =>
          /\ \A c \in {"area_ndvi", "data_img"} :
                conversion_failures[c] > 0 <=>
                    \E k \in DOMAIN details :
                        details[k] = [col |-> c, invalid |-> conversion_failures[c]]
          /\ Len(details) <= 2

(***************************************************************************)
(* The phase-1 key over free text                                          *)
(*                                                                         *)
(* FAZENDA, VARIEDADE and an upstream JAN_COL are not validated: their     *)
(* text may hold '_'.  A text is written as its pieces between the '_'.    *)
(***************************************************************************)
KeyShapes ==
    {BaseRow,
     [BaseRow EXCEPT !.fazenda = <<"FAZ1", "_", "1">>],
     [BaseRow EXCEPT !.fazenda = <<"FAZ2">>],
     [BaseRow EXCEPT !.variedade = <<"VAR1", "_", "X">>, !.jan_col = <<"Y">>],
     [BaseRow EXCEPT !.variedade = <<"VAR1">>, !.jan_col = <<"X", "_", "Y">>],
     [BaseRow EXCEPT !.variedade = <<"VAR1", "_", "X">>]}

KeyRows == {WithArea(r, a) : r \in KeyShapes, a \in {15, 20}}

ChaveInit ==
    /\ intersect_ndvi_data \in UNION {[1..n -> KeyRows] : n \in 1..MaxAggRows}
    /\ by_chave = {}
    /\ data_final = {}
    /\ apc = "format"

InitChave ==
    ChaveInit /\ LoaderIdle /\ ValidationIdle /\ EstagiosIdle /\ GeometryIdle /\ HelpersIdle

SpecChave == InitChave /\ [][NextSummary]_vars

\* C30: two input rows get the same '_'-joined key, and so are merged into
\* one phase-1 row, exactly when they agree on farm, grid-code, derived
\* stage, ownership type, variety, harvest window, season and time window,
\* also when the farm or the variety holds '_'.
C30_KeyIsFaithful ==
    /\ apc \in {"chave", "final", "summarized"} =>
          \A i, j \in DOMAIN intersect_ndvi_data :
              (Chave(intersect_ndvi_data[i]) = Chave(intersect_ndvi_data[j]))
                  <=> (KeyAttributes(intersect_ndvi_data[i])
                          = KeyAttributes(intersect_ndvi_data[j]))
    /\ apc \in {"final", "summarized"} =>
          Cardinality(by_chave) =
              Cardinality({KeyAttributes(intersect_ndvi_data[i]) :
                              i \in DOMAIN intersect_ndvi_data})

====
